---- MODULE Spec2Model ----
(***************************************************************************)
(* A model of @lnbot/l402: the client-side request / payment / retry /     *)
(* cache orchestration (l402Fetch of src/client/fetch.ts, lines 153-256),  *)
(* its Budget tracker, its token stores and the header codec it uses       *)
(* (Spec); the Budget and the in-memory store used directly (BudgetSpec,   *)
(* StoreSpec); and the server-side paywall middleware (GateSpec).          *)
(*                                                                         *)
(* Strings are sequences of tokens of a small alphabet, so that the codec  *)
(* and the URL normalisation are computed, not assumed.  A value that may  *)
(* be null / undefined in the source is a sequence of length 0 (Null) or   *)
(* of length 1 (Some(v)).                                                  *)
(***************************************************************************)
EXTENDS Integers, Sequences, FiniteSets, TLC

VARIABLES
    options,      \* the L402ClientOptions the client was created with
    now,          \* Date.now()
    ticks,        \* how many times the clock has advanced
    started,      \* how many fetch calls have begun
    budget,       \* the Budget object: spent, periodStart, totalSats, periodMs
    tokens,       \* the MemoryStore's Map: normalized URL -> L402Token
    calls,        \* per fetch call: its position and its local variables
    trace,        \* the calls made directly on a Budget or a store, with their effects
    gate          \* the paywall middleware's handling of one request

vars == <<options, now, ticks, started, budget, tokens, calls, trace, gate>>

---------------------------------------------------------------------------
(* Bounds of the model. *)

MaxCalls == 2
MaxTicks == 1
MaxOps == 3         \* direct calls on a Budget or on a store
MaxElapses == 2     \* clock advances between direct calls on a Budget
MaxLen == 2         \* tokens in a macaroon, a preimage or an invoice given to the codec

---------------------------------------------------------------------------
(* null / undefined *)

Null == <<>>
Some(x) == <<x>>
IsNull(o) == Len(o) = 0
Val(o) == o[1]

(* a ?? b, with a an optional value *)
OrElse(o, d) == IF IsNull(o) THEN d ELSE Val(o)

---------------------------------------------------------------------------
(* Strings as token sequences. *)

Quote == "\""
Colon == ":"
L402Scheme == <<"L402", " ">>

startsWith(s, p) == Len(s) >= Len(p) /\ SubSeq(s, 1, Len(p)) = p

lastIndexOf_First(s, ch) ==
    LET hits == {i \in 1..Len(s) : s[i] = ch}
    IN  IF hits = {} THEN -1
        ELSE (CHOOSE i \in hits : \A j \in hits : i <= j) - 1

(* String.prototype.lastIndexOf for a one-token needle: 0-based, -1 if absent *)
lastIndexOf(s, ch) ==
    LET hits == {i \in 1..Len(s) : s[i] = ch}
    IN  IF hits = {} THEN -1
        ELSE (CHOOSE i \in hits : \A j \in hits : j <= i) - 1

(* s.slice(from) and s.slice(from, to), 0-based as in the source *)
sliceFrom(s, from) == SubSeq(s, from + 1, Len(s))
slice(s, from, to) == SubSeq(s, from + 1, to)

(* header.match(/key"([^"]+)"/): the capture group of the leftmost match *)
MatchesAt(h, key, i, j) ==
    /\ i + Len(key) + 2 <= j
    /\ j <= Len(h)
    /\ SubSeq(h, i, i + Len(key) - 1) = key
    /\ h[i + Len(key)] = Quote
    /\ h[j] = Quote
    /\ \A k \in (i + Len(key) + 1)..(j - 1) : h[k] # Quote

matchQuoted(h, key) ==
    LET starts == {i \in 1..Len(h) : \E j \in 1..Len(h) : MatchesAt(h, key, i, j)}
    IN  IF starts = {} THEN Null
        ELSE LET i == CHOOSE x \in starts : \A y \in starts : x <= y
                 j == CHOOSE x \in 1..Len(h) : MatchesAt(h, key, i, x)
             IN  Some(SubSeq(h, i + Len(key) + 1, j - 1))

MacaroonKey == <<"macaroon=">>
InvoiceKey == <<"invoice=">>

parseAuthorization(header) ==
    IF ~startsWith(header, L402Scheme) THEN Null
    ELSE LET token == sliceFrom(header, Len(L402Scheme))
             colonIndex == lastIndexOf(token, Colon)
         IN  IF colonIndex = -1 THEN Null
             ELSE Some([macaroon |-> slice(token, 0, colonIndex),
                        preimage |-> sliceFrom(token, colonIndex + 1)])

parseChallenge_MacaroonOnly(header) ==
    IF ~startsWith(header, L402Scheme) THEN Null
    ELSE LET macaroonMatch == matchQuoted(header, MacaroonKey)
         IN  IF IsNull(macaroonMatch) THEN Null
             ELSE Some([macaroon |-> Val(macaroonMatch), invoice |-> <<>>])

parseChallenge(header) ==
    IF ~startsWith(header, L402Scheme) THEN Null
    ELSE LET macaroonMatch == matchQuoted(header, MacaroonKey)
             invoiceMatch == matchQuoted(header, InvoiceKey)
         IN  IF IsNull(macaroonMatch) \/ IsNull(invoiceMatch) THEN Null
             ELSE Some([macaroon |-> Val(macaroonMatch),
                        invoice |-> Val(invoiceMatch)])

formatAuthorization(macaroon, preimage) ==
    L402Scheme \o macaroon \o <<Colon>> \o preimage

formatChallenge(macaroon, invoice) ==
    L402Scheme \o MacaroonKey \o <<Quote>> \o macaroon \o <<Quote, ",", " ">>
        \o InvoiceKey \o <<Quote>> \o invoice \o <<Quote>>

---------------------------------------------------------------------------
(* URLs.  A URL is a sequence of tokens: the origin, "/", a path segment,  *)
(* "?" and what follows it, "#" and what follows it.  new URL(url) throws  *)
(* for a string with no origin (a relative reference).                     *)

Origin == "https://h"

isAbsolute(url) == Len(url) >= 1 /\ url[1] = Origin

(* the index of the first "?" or "#", or Len + 1 *)
pathEnd(s) ==
    LET cuts == {i \in 1..Len(s) : s[i] \in {"?", "#"}}
    IN  IF cuts = {} THEN Len(s) + 1
        ELSE CHOOSE i \in cuts : \A j \in cuts : i <= j

(* s.replace(/\/+$/, "") *)
stripTrailingSlashes(s) ==
    LET keep == {i \in 1..Len(s) : s[i] # "/"}
    IN  IF keep = {} THEN <<>>
        ELSE SubSeq(s, 1, CHOOSE i \in keep : \A j \in keep : j <= i)

normalizeUrl_KeepsQuery(url) ==
    IF ~isAbsolute(url) THEN url
    ELSE LET cuts == {i \in 1..Len(url) : url[i] = "#"}
             kept == IF cuts = {} THEN url
                     ELSE SubSeq(url, 1, (CHOOSE i \in cuts : \A j \in cuts : i <= j) - 1)
         IN  stripTrailingSlashes(IF Len(kept) = 1 THEN kept \o <<"/">> ELSE kept)

normalizeUrl(url) ==
    IF ~isAbsolute(url) THEN url
    ELSE LET rest == sliceFrom(url, 1)
             path == SubSeq(rest, 1, pathEnd(rest) - 1)
             href == <<Origin>> \o (IF path = <<>> THEN <<"/">> ELSE path)
         IN  stripTrailingSlashes(href)

---------------------------------------------------------------------------
(* Token stores. *)

EmptyMap == [k \in {} |-> Null]
mapGet(m, k) == IF k \in DOMAIN m THEN Some(m[k]) ELSE Null
mapSet(m, k, v) == [x \in (DOMAIN m) \cup {k} |-> IF x = k THEN v ELSE m[x]]
mapDelete(m, k) == [x \in (DOMAIN m) \ {k} |-> m[x]]

resolveStore_AlwaysMemory(store) == "memory"

(* resolveStore: which TokenStore the option selects *)
resolveStore(store) ==
    IF IsNull(store) \/ store = Some("memory") THEN "memory"
    ELSE IF store = Some("none") THEN "none"
    ELSE Val(store)

(* MemoryStore / NoStore: get, set, delete on the map m; a store supplied  *)
(* by the caller ("custom") is a map keyed by the argument it is given     *)
storeGet(kind, m, url) ==
    IF kind = "memory" THEN mapGet(m, normalizeUrl(url))
    ELSE IF kind = "custom" THEN mapGet(m, url)
    ELSE Null

storeSet_KeepsFirst(kind, m, url, token) ==
    IF kind = "memory" /\ normalizeUrl(url) \notin DOMAIN m
    THEN mapSet(m, normalizeUrl(url), token)
    ELSE m
storeSet(kind, m, url, token) ==
    IF kind = "memory" THEN mapSet(m, normalizeUrl(url), token)
    ELSE IF kind = "custom" THEN mapSet(m, url, token)
    ELSE m

storeDelete_Noop(kind, m, url) == m
storeDelete(kind, m, url) ==
    IF kind = "memory" THEN mapDelete(m, normalizeUrl(url))
    ELSE IF kind = "custom" THEN mapDelete(m, url)
    ELSE m

---------------------------------------------------------------------------
(* Errors. *)

L402Error(message) == [name |-> "L402Error", message |-> message]
L402BudgetExceededError_Plain(message) == L402Error(message)
L402BudgetExceededError(message) ==
    [name |-> "L402BudgetExceededError", message |-> message]
L402PaymentFailedError(message) ==
    [name |-> "L402PaymentFailedError", message |-> message]

---------------------------------------------------------------------------
(* Budget. *)

PERIOD_MS(period) ==
    CASE period = "hour"  -> 60 * 60 * 1000
      [] period = "day"   -> 24 * 60 * 60 * 1000
      [] period = "week"  -> 7 * 24 * 60 * 60 * 1000
      [] period = "month" -> 30 * 24 * 60 * 60 * 1000

(* new Budget(options), constructed at time t *)
NewBudget(opts, t) ==
    [spent |-> 0,
     periodStart |-> t,
     totalSats |-> opts.budgetSats,
     periodMs |-> IF IsNull(opts.budgetPeriod) THEN Null
                  ELSE Some(PERIOD_MS(Val(opts.budgetPeriod)))]

periodElapsed_Strict(b, t) ==
    /\ ~IsNull(b.periodMs)
    /\ Val(b.periodMs) # 0
    /\ t - b.periodStart > Val(b.periodMs)

periodElapsed(b, t) ==
    /\ ~IsNull(b.periodMs)
    /\ Val(b.periodMs) # 0
    /\ t - b.periodStart >= Val(b.periodMs)

maybeReset(b, t) ==
    IF periodElapsed(b, t) THEN [b EXCEPT !.spent = 0, !.periodStart = t] ELSE b

overBudget_IgnoresPrice(spent, price, totalSats) == spent > totalSats
overBudget_Geq(spent, price, totalSats) == spent + price >= totalSats
overBudget(spent, price, totalSats) == spent + price > totalSats

check_Records(b, price, t) ==
    IF IsNull(b.totalSats) THEN [budget |-> b, threw |-> Null]
    ELSE LET r == maybeReset(b, t)
         IN  IF overBudget(r.spent, price, Val(r.totalSats))
             THEN [budget |-> r,
                   threw |-> Some(L402BudgetExceededError(
                       <<"would exceed budget", price, r.spent, Val(r.totalSats)>>))]
             ELSE [budget |-> [r EXCEPT !.spent = @ + price], threw |-> Null]

(* check(price): the budget afterwards and the error thrown, if any *)
check(b, price, t) ==
    IF IsNull(b.totalSats) THEN [budget |-> b, threw |-> Null]
    ELSE LET r == maybeReset(b, t)
         IN  IF overBudget(r.spent, price, Val(r.totalSats))
             THEN [budget |-> r,
                   threw |-> Some(L402BudgetExceededError(
                       <<"would exceed budget", price, r.spent, Val(r.totalSats)>>))]
             ELSE [budget |-> r, threw |-> Null]

(* record(price) *)
record(b, price, t) ==
    LET r == maybeReset(b, t)
    IN  [r EXCEPT !.spent = @ + price]

---------------------------------------------------------------------------
(* The values the environment (caller, server, payer) may supply. *)

UrlA == <<Origin, "/", "a">>
UrlAq == <<Origin, "/", "a", "?", "q">>
UrlB == <<Origin, "/", "b">>
UrlPool == {UrlA, UrlAq, UrlB}

ChallengeA == formatChallenge(<<"m">>, <<"i">>)
ChallengeNoInvoice == L402Scheme \o MacaroonKey \o <<Quote, "m", Quote>>

AuthA == formatAuthorization(<<"n">>, <<"p">>)
AuthNoColon == L402Scheme \o <<"x">>

DefaultMaxPrice == 1000

(* the 402 body: unparsable, or an object with or without price / expiresAt; *)
(* the prices straddle the configured ceiling (2), the budget (3) and the    *)
(* default ceiling                                                           *)
BodyPool ==
    {Null}
    \cup {Some([price |-> p, expiresAt |-> e]) :
            p \in {Null, Some(1), Some(2), Some(3)}, e \in {Null, Some(1)}}
    \cup {Some([price |-> Some(p), expiresAt |-> Null]) :
            p \in {DefaultMaxPrice, DefaultMaxPrice + 1}}

ResponsePool ==
    {[status |-> s, wwwAuthenticate |-> Null, body |-> Null] : s \in {200, 500}}
    \cup {[status |-> 402, wwwAuthenticate |-> h, body |-> Null] :
            h \in {Null, Some(<<>>), Some(ChallengeNoInvoice)}}
    \cup {[status |-> 402, wwwAuthenticate |-> Some(ChallengeA), body |-> b] :
            b \in BodyPool}

(* answers to a request that carries a credential: l402Fetch reads only     *)
(* their status, so one 402 stands for all of them                          *)
AnswerPool ==
    {r \in ResponsePool :
        r.status = 402 => r.wwwAuthenticate = Some(ChallengeA) /\ r.body = Null}

(* what ln.l402.pay may resolve with; a payer that reports a preimage       *)
(* reports it beside a well-formed authorization                            *)
PaymentPool ==
    {p \in [status : {"settled", "failed", "pending"},
            authorization : {Null, Some(<<>>), Some(AuthA), Some(AuthNoColon)},
            preimage : {Null, Some(<<"q">>)},
            amount : {Null, Some(4)}] :
        ~IsNull(p.preimage) => p.authorization = Some(AuthA)}

(* every combination of options with the cache disabled; with the in-memory *)
(* cache, the defaults and the fully limited client                         *)
OptionsPool ==
    {o \in [maxPrice : {Null, Some(2)},
            budgetSats : {Null, Some(3)},
            budgetPeriod : {Null, Some("hour")},
            store : {Null, Some("none")}] :
        \/ o.store = Some("none")
        \/ IsNull(o.maxPrice) /\ IsNull(o.budgetSats) /\ IsNull(o.budgetPeriod)
        \/ ~IsNull(o.maxPrice) /\ ~IsNull(o.budgetSats) /\ ~IsNull(o.budgetPeriod)}

TickPool == {1, PERIOD_MS("hour")}

---------------------------------------------------------------------------
(* client(ln, options): the closure's constants. *)

maxPrice(opts) == OrElse(opts.maxPrice, DefaultMaxPrice)
store == resolveStore(options.store)

---------------------------------------------------------------------------
(* l402Fetch: the tests and values it computes. *)

(* cached.expiresAt && cached.expiresAt.getTime() <= Date.now() *)
isExpired_Never(cached, t) == FALSE
isExpired(cached, t) ==
    ~IsNull(cached.expiresAt) /\ Val(cached.expiresAt) <= t

paymentRequired_Not200(res) == res.status # 200
paymentRequired_AnyError(res) == res.status >= 400
paymentRequired(res) == res.status = 402

(* !wwwAuth, !payment.authorization: null, undefined or the empty string *)
falsy(o) == IsNull(o) \/ Val(o) = <<>>

(* body?.price ?? 0 *)
priceOf(body) == IF IsNull(body) THEN 0 ELSE OrElse(Val(body).price, 0)

exceedsMaxPrice_Geq(price, max) == price >= max
exceedsMaxPrice(price, max) == price > max

paymentFailed_Never(payment) == FALSE
paymentFailed(payment) == payment.status = "failed"

(* the L402Token written after a payment *)
newToken_ChallengeMacaroon(challenge, body, payment, t) ==
    [macaroon |-> challenge.macaroon,
     preimage |-> OrElse(payment.preimage, <<>>),
     authorization |-> Val(payment.authorization),
     paidAt |-> t,
     expiresAt |-> IF IsNull(body) THEN Null ELSE Val(body).expiresAt]
newToken(challenge, body, payment, t) ==
    LET parsed == parseAuthorization(Val(payment.authorization))
    IN  [macaroon |-> IF IsNull(parsed) THEN challenge.macaroon
                      ELSE Val(parsed).macaroon,
         preimage |-> IF ~IsNull(payment.preimage) THEN Val(payment.preimage)
                      ELSE IF ~IsNull(parsed) THEN Val(parsed).preimage
                      ELSE <<>>,
         authorization |-> Val(payment.authorization),
         paidAt |-> t,
         expiresAt |-> IF IsNull(body) \/ IsNull(Val(body).expiresAt)
                          \/ Val(Val(body).expiresAt) = 0
                       THEN Null
                       ELSE Val(body).expiresAt]

(* the Authorization header of the retry *)
retryAuthorization_None(payment) == Null
retryAuthorization(payment) == payment.authorization

(* payment.amount ?? price *)
amountCharged_HintOnly(payment, price) == price
amountCharged(payment, price) == OrElse(payment.amount, price)

---------------------------------------------------------------------------
(* Per-call state: the position (pc names the await the call is suspended  *)
(* at), the locals of l402Fetch, and a log of what the call has done.      *)

Calls == {1, 2}

IdleCall ==
    [pc |-> "idle",
     url |-> <<>>,
     cached |-> Null,
     res |-> Null,
     wwwAuth |-> Null,
     challenge |-> Null,
     price |-> 0,
     payment |-> Null,
     requests |-> <<>>,      \* each outbound request: which one, its Authorization
     responses |-> <<>>,     \* the answer to each of them
     payerCalls |-> <<>>,    \* the wwwAuthenticate of each ln.l402.pay call
     checkedAt |-> Null,     \* when budget.check was called
     checked |-> Null,       \* the budget as budget.check left it
     recorded |-> <<>>,      \* the amount of each budget.record call
     stored |-> <<>>,        \* the token of each store.set call
     deleted |-> 0,          \* the number of store.delete calls
     result |-> Null,        \* the Response the call resolved with
     error |-> Null,         \* the error the call rejected with
     before |-> Null]          \* the store and the budget when the call began

InProgress(c) == calls[c].pc \notin {"idle", "done", "failed"}

Return(call, res) == [call EXCEPT !.pc = "done", !.result = Some(res)]
Throw(call, err) == [call EXCEPT !.pc = "failed", !.error = Some(err)]
Request_Resends(call, kind, auth) ==
    [call EXCEPT !.pc = kind,
                 !.requests = @ \o <<[kind |-> kind, authorization |-> auth],
                                     [kind |-> kind, authorization |-> auth]>>]
Request(call, kind, auth) ==
    [call EXCEPT !.pc = kind,
                 !.requests = Append(@, [kind |-> kind, authorization |-> auth])]
Answered(call, res) == [call EXCEPT !.responses = Append(@, res)]

---------------------------------------------------------------------------
(* l402Fetch, one action per stretch of code between two awaits. *)

(* l402Fetch(url) is called: store.get(url) runs and the call awaits it *)
Begin(c, url) ==
    /\ ~InProgress(c)
    /\ started < MaxCalls
    /\ started' = started + 1
    /\ calls' = [calls EXCEPT ![c] =
            [IdleCall EXCEPT !.pc = "get",
                             !.url = url,
                             !.cached = storeGet(store, tokens, url),
                             !.before = Some([tokens |-> tokens, budget |-> budget])]]
    /\ UNCHANGED <<trace, gate, options, now, ticks, budget, tokens>>

(* store.get resolved: send the cached credential, or delete it if expired, *)
(* or send the request with no credential                                   *)
AfterGet(c) ==
    LET call == calls[c] IN
    /\ call.pc = "get"
    /\ IF IsNull(call.cached)
       THEN /\ calls' = [calls EXCEPT ![c] = Request(call, "fetch", Null)]
            /\ UNCHANGED tokens
       ELSE IF ~isExpired(Val(call.cached), now)
       THEN /\ calls' = [calls EXCEPT ![c] =
                    Request(call, "cachedFetch", Some(Val(call.cached).authorization))]
            /\ UNCHANGED tokens
       ELSE /\ tokens' = storeDelete(store, tokens, call.url)
            /\ calls' = [calls EXCEPT ![c] =
                    [call EXCEPT !.pc = "delete", !.deleted = @ + 1]]
    /\ UNCHANGED <<trace, gate, options, now, ticks, started, budget>>

(* the request carrying the cached credential is answered *)
CachedResponse(c, res) ==
    LET call == Answered(calls[c], res) IN
    /\ call.pc = "cachedFetch"
    /\ IF ~paymentRequired(res)
       THEN /\ calls' = [calls EXCEPT ![c] = Return(call, res)]
            /\ UNCHANGED tokens
       ELSE /\ tokens' = storeDelete(store, tokens, call.url)
            /\ calls' = [calls EXCEPT ![c] =
                    [call EXCEPT !.pc = "delete", !.deleted = @ + 1]]
    /\ UNCHANGED <<trace, gate, options, now, ticks, started, budget>>

(* store.delete resolved: send the request with no credential *)
AfterDelete(c) ==
    LET call == calls[c] IN
    /\ call.pc = "delete"
    /\ calls' = [calls EXCEPT ![c] = Request(call, "fetch", Null)]
    /\ UNCHANGED <<trace, gate, options, now, ticks, started, budget, tokens>>

(* the request with no credential is answered *)
Response(c, res) ==
    LET call == Answered(calls[c], res)
        wwwAuth == res.wwwAuthenticate
        challenge == parseChallenge(Val(wwwAuth))
    IN
    /\ call.pc = "fetch"
    /\ calls' = [calls EXCEPT ![c] =
            IF ~paymentRequired(res) THEN Return(call, res)
            ELSE IF falsy(wwwAuth)
            THEN Throw(call, L402Error(<<"402 response missing WWW-Authenticate header">>))
            ELSE IF IsNull(challenge)
            THEN Throw(call, L402Error(<<"Could not parse L402 challenge">>))
            ELSE [call EXCEPT !.pc = "json",
                              !.res = Some(res),
                              !.wwwAuth = wwwAuth,
                              !.challenge = challenge]]
    /\ UNCHANGED <<trace, gate, options, now, ticks, started, budget, tokens>>

(* res.json() resolved: the ceiling, budget.check, then ln.l402.pay is called *)
AfterJson(c) ==
    LET call == calls[c]
        price == priceOf(Val(call.res).body)
        checked == check(budget, price, now)
    IN
    /\ call.pc = "json"
    /\ IF exceedsMaxPrice(price, maxPrice(options))
       THEN /\ calls' = [calls EXCEPT ![c] =
                    Throw([call EXCEPT !.price = price],
                          L402BudgetExceededError(
                              <<"exceeds maxPrice", price, maxPrice(options)>>))]
            /\ UNCHANGED budget
       ELSE /\ budget' = checked.budget
            /\ calls' = [calls EXCEPT ![c] =
                    IF ~IsNull(checked.threw)
                    THEN Throw([call EXCEPT !.price = price,
                                            !.checkedAt = Some(now),
                                            !.checked = Some(checked.budget)],
                               Val(checked.threw))
                    ELSE [call EXCEPT !.pc = "pay",
                                      !.price = price,
                                      !.checkedAt = Some(now),
                                      !.checked = Some(checked.budget),
                                      !.payerCalls = Append(@, Val(call.wwwAuth))]]
    /\ UNCHANGED <<trace, gate, options, now, ticks, started, tokens>>

(* ln.l402.pay resolved: unusable results throw, otherwise store.set is called *)
PayResult(c, payment) ==
    LET call == calls[c]
        paid == [call EXCEPT !.payment = Some(payment)]
        token == newToken(Val(call.challenge), Val(call.res).body, payment, now)
    IN
    /\ call.pc = "pay"
    /\ IF paymentFailed(payment)
       THEN /\ calls' = [calls EXCEPT ![c] =
                    Throw(paid, L402PaymentFailedError(<<"L402 payment failed">>))]
            /\ UNCHANGED tokens
       ELSE IF falsy(payment.authorization)
       THEN /\ calls' = [calls EXCEPT ![c] =
                    Throw(paid, L402PaymentFailedError(
                        <<"Payment did not return authorization token">>))]
            /\ UNCHANGED tokens
       ELSE /\ tokens' = storeSet(store, tokens, call.url, token)
            /\ calls' = [calls EXCEPT ![c] =
                    [paid EXCEPT !.pc = "set", !.stored = Append(@, token)]]
    /\ UNCHANGED <<trace, gate, options, now, ticks, started, budget>>

(* store.set resolved: budget.record, then the retry is sent *)
AfterSet(c) ==
    LET call == calls[c]
        payment == Val(call.payment)
        amount == amountCharged(payment, call.price)
    IN
    /\ call.pc = "set"
    /\ budget' = record(budget, amount, now)
    /\ calls' = [calls EXCEPT ![c] =
            Request([call EXCEPT !.recorded = Append(@, amount)],
                    "retry", retryAuthorization(payment))]
    /\ UNCHANGED <<trace, gate, options, now, ticks, started, tokens>>

(* the retry is answered *)
RetryResponse_NoCheck(c, retry) ==
    LET call == Answered(calls[c], retry) IN
    /\ call.pc = "retry"
    /\ calls' = [calls EXCEPT ![c] = Return(call, retry)]
    /\ UNCHANGED <<trace, gate, options, now, ticks, started, budget, tokens>>

RetryResponse_RollsBack(c, retry) ==
    LET call == Answered(calls[c], retry) IN
    /\ call.pc = "retry"
    /\ calls' = [calls EXCEPT ![c] =
            IF paymentRequired(retry)
            THEN Throw(call, L402PaymentFailedError(
                     <<"Server returned 402 after successful payment">>))
            ELSE Return(call, retry)]
    /\ tokens' = IF paymentRequired(retry)
                 THEN storeDelete(store, tokens, call.url)
                 ELSE tokens
    /\ UNCHANGED <<trace, gate, options, now, ticks, started, budget>>

RetryResponse(c, retry) ==
    LET call == Answered(calls[c], retry) IN
    /\ call.pc = "retry"
    /\ calls' = [calls EXCEPT ![c] =
            IF paymentRequired(retry)
            THEN Throw(call, L402PaymentFailedError(
                     <<"Server returned 402 after successful payment">>))
            ELSE Return(call, retry)]
    /\ UNCHANGED <<trace, gate, options, now, ticks, started, budget, tokens>>

(* a request fails at transport level: globalThis.fetch rejects and the    *)
(* rejection leaves l402Fetch as it is                                     *)
FetchRejects(c) ==
    LET call == calls[c] IN
    /\ call.pc \in {"cachedFetch", "fetch", "retry"}
    /\ calls' = [calls EXCEPT ![c] =
            Throw(call, [name |-> "TypeError", message |-> <<"fetch failed">>])]
    /\ UNCHANGED <<trace, gate, options, now, ticks, started, budget, tokens>>

(* time passes *)
Tick(d) ==
    /\ ticks < MaxTicks
    /\ ticks' = ticks + 1
    /\ now' = now + d
    /\ UNCHANGED <<trace, gate, options, started, budget, tokens, calls>>

---------------------------------------------------------------------------
(* A client used sequentially: one fetch call at a time. *)

Sequential == {1}

Init ==
    /\ options \in OptionsPool
    /\ now = 0
    /\ ticks = 0
    /\ started = 0
    /\ budget = NewBudget(options, 0)
    /\ tokens = EmptyMap
    /\ calls = [c \in Calls |-> IdleCall]
    /\ trace = <<>>
    /\ gate = Null

Next ==
    \/ \E d \in TickPool : Tick(d)
    \/ \E c \in Sequential, url \in UrlPool : Begin(c, url)
    \/ \E c \in Sequential : AfterGet(c)
    \/ \E c \in Sequential, res \in AnswerPool : CachedResponse(c, res)
    \/ \E c \in Sequential : AfterDelete(c)
    \/ \E c \in Sequential, res \in ResponsePool : Response(c, res)
    \/ \E c \in Sequential : AfterJson(c)
    \/ \E c \in Sequential, payment \in PaymentPool : PayResult(c, payment)
    \/ \E c \in Sequential : AfterSet(c)
    \/ \E c \in Sequential, res \in AnswerPool : RetryResponse(c, res)

Spec == Init /\ [][Next]_vars

---------------------------------------------------------------------------
(* A client with its in-memory store whose fetch calls overlap: the awaits *)
(* of l402Fetch are the points where the other call may run.               *)

ConcurrentOptionsPool == {o \in OptionsPool : IsNull(o.store)}

ConcurrentUrlPool == {UrlA, UrlB}

(* the server answers 200, or 402 with a challenge and the price 2 *)
ConcurrentResponsePool ==
    {r \in ResponsePool :
        r.status = 402
        => /\ r.wwwAuthenticate = Some(ChallengeA)
           /\ r.body = Some([price |-> Some(2), expiresAt |-> Null])}

ConcurrentAnswerPool == {r \in AnswerPool : r.status \in {200, 402}}

(* the payer fails, or settles with one of two credentials, reporting the  *)
(* amount 4 or none                                                        *)
ConcurrentPaymentPool ==
    {p \in PaymentPool :
        /\ p.status \in {"settled", "failed"}
        /\ p.authorization \in {Some(AuthA), Some(AuthNoColon)}
        /\ IsNull(p.preimage)}

ConcurrentInit ==
    /\ options \in ConcurrentOptionsPool
    /\ now = 0
    /\ ticks = 0
    /\ started = 0
    /\ budget = NewBudget(options, 0)
    /\ tokens = EmptyMap
    /\ calls = [c \in Calls |-> IdleCall]
    /\ trace = <<>>
    /\ gate = Null

ConcurrentNext ==
    \/ \E d \in TickPool : Tick(d)
    \/ \E c \in Calls, url \in ConcurrentUrlPool : Begin(c, url)
    \/ \E c \in Calls : AfterGet(c)
    \/ \E c \in Calls, res \in ConcurrentAnswerPool : CachedResponse(c, res)
    \/ \E c \in Calls : AfterDelete(c)
    \/ \E c \in Calls, res \in ConcurrentResponsePool : Response(c, res)
    \/ \E c \in Calls : AfterJson(c)
    \/ \E c \in Calls, payment \in ConcurrentPaymentPool : PayResult(c, payment)
    \/ \E c \in Calls : AfterSet(c)
    \/ \E c \in Calls, res \in ConcurrentAnswerPool : RetryResponse(c, res)

ConcurrentSpec == ConcurrentInit /\ [][ConcurrentNext]_vars

(* The same client after an earlier call that was answered 402 without a   *)
(* price, paid and stored its credential for UrlA: the store holds that    *)
(* credential when the overlapping calls begin; started counts the calls   *)
(* begun after it.                                                         *)

EarlierPayment ==
    [status |-> "settled", authorization |-> Some(AuthA), preimage |-> Null,
     amount |-> Null]

EarlierToken == newToken(Val(parseChallenge(ChallengeA)), Null, EarlierPayment, 0)

RacingInit ==
    /\ options \in ConcurrentOptionsPool
    /\ now = 0
    /\ ticks = 0
    /\ started = 0
    /\ budget = record(NewBudget(options, 0), amountCharged(EarlierPayment, 0), 0)
    /\ tokens = storeSet(store, EmptyMap, UrlA, EarlierToken)
    /\ calls = [c \in Calls |-> IdleCall]
    /\ trace = <<>>
    /\ gate = Null

RacingSpec == RacingInit /\ [][ConcurrentNext]_vars

---------------------------------------------------------------------------
(* A Budget used directly: new Budget(options) at time 0, then check and   *)
(* record calls while time passes.  trace holds the latest call: what was  *)
(* called, when, the budget before and after it, and the error thrown.     *)

BudgetOptionsPool ==
    [maxPrice : {Null},
     budgetSats : {Null, Some(3)},
     budgetPeriod : {Null, Some("hour")},
     store : {Null}]

PricePool == 0..4

ElapsePool ==
    {1, PERIOD_MS("hour") - 1, PERIOD_MS("hour"), 2 * PERIOD_MS("hour") + 1}

BudgetCall(op, price, after, threw) ==
    [op |-> op, price |-> price, at |-> now,
     before |-> budget, after |-> after, threw |-> threw]

BudgetCheck(price) ==
    LET r == check(budget, price, now) IN
    /\ started < MaxOps
    /\ started' = started + 1
    /\ budget' = r.budget
    /\ trace' = <<BudgetCall("check", price, r.budget, r.threw)>>
    /\ UNCHANGED <<options, now, ticks, tokens, calls, gate>>

BudgetRecord(price) ==
    LET r == record(budget, price, now) IN
    /\ started < MaxOps
    /\ started' = started + 1
    /\ budget' = r
    /\ trace' = <<BudgetCall("record", price, r, Null)>>
    /\ UNCHANGED <<options, now, ticks, tokens, calls, gate>>

Elapse(d) ==
    /\ ticks < MaxElapses
    /\ ticks' = ticks + 1
    /\ now' = now + d
    /\ UNCHANGED <<options, started, budget, tokens, calls, trace, gate>>

BudgetInit ==
    /\ options \in BudgetOptionsPool
    /\ now = 0
    /\ ticks = 0
    /\ started = 0
    /\ budget = NewBudget(options, 0)
    /\ tokens = EmptyMap
    /\ calls = [c \in Calls |-> IdleCall]
    /\ trace = <<>>
    /\ gate = Null

BudgetNext ==
    \/ \E price \in PricePool : BudgetCheck(price)
    \/ \E price \in PricePool : BudgetRecord(price)
    \/ \E d \in ElapsePool : Elapse(d)

BudgetSpec == BudgetInit /\ [][BudgetNext]_vars

---------------------------------------------------------------------------
(* The in-memory store used directly: get, set and delete calls with URLs  *)
(* that differ in query string, fragment and trailing slashes, and with    *)
(* strings new URL() rejects.  trace holds the latest call.                *)

StoreOptionsPool ==
    [maxPrice : {Null},
     budgetSats : {Null},
     budgetPeriod : {Null},
     store : {Null, Some("memory")}]

StoreUrlPool ==
    {UrlA, UrlAq, UrlB,
     UrlA \o <<"/">>,
     UrlA \o <<"/", "/">>,
     UrlA \o <<"#", "f">>,
     UrlA \o <<"/", "?", "q", "#", "f">>,
     UrlA \o <<"/", "b">>,
     <<Origin>>,
     <<Origin, "/">>,
     <<"/", "a">>,
     <<"/", "a", "?", "q">>}

TokenPool ==
    {[macaroon |-> m, preimage |-> <<"p">>,
      authorization |-> formatAuthorization(m, <<"p">>),
      paidAt |-> 0, expiresAt |-> Null] : m \in {<<"n">>, <<"o">>}}

StoreCall(op, url, token, after, result) ==
    [op |-> op, url |-> url, token |-> token,
     before |-> tokens, after |-> after, result |-> result]

StoreGet(url) ==
    /\ started < MaxOps
    /\ started' = started + 1
    /\ trace' = <<StoreCall("get", url, Null, tokens, storeGet(store, tokens, url))>>
    /\ UNCHANGED <<options, now, ticks, budget, tokens, calls, gate>>

StoreSet(url, token) ==
    /\ started < MaxOps
    /\ started' = started + 1
    /\ tokens' = storeSet(store, tokens, url, token)
    /\ trace' = <<StoreCall("set", url, Some(token), tokens', Null)>>
    /\ UNCHANGED <<options, now, ticks, budget, calls, gate>>

StoreDelete(url) ==
    /\ started < MaxOps
    /\ started' = started + 1
    /\ tokens' = storeDelete(store, tokens, url)
    /\ trace' = <<StoreCall("delete", url, Null, tokens', Null)>>
    /\ UNCHANGED <<options, now, ticks, budget, calls, gate>>

StoreInit ==
    /\ options \in StoreOptionsPool
    /\ now = 0
    /\ ticks = 0
    /\ started = 0
    /\ budget = NewBudget(options, 0)
    /\ tokens = EmptyMap
    /\ calls = [c \in Calls |-> IdleCall]
    /\ trace = <<>>
    /\ gate = Null

StoreNext ==
    \/ \E url \in StoreUrlPool : StoreGet(url)
    \/ \E url \in StoreUrlPool, token \in TokenPool : StoreSet(url, token)
    \/ \E url \in StoreUrlPool : StoreDelete(url)

StoreSpec == StoreInit /\ [][StoreNext]_vars

---------------------------------------------------------------------------
(* The paywall middleware handling one request.  options holds the         *)
(* L402PaywallOptions; gate holds the request's Authorization header, the  *)
(* handler's position (the await it is suspended at), what it has called   *)
(* (verifier, pricing, challenge minter, next) and the response it sent.   *)

PaywallOptionsPool ==
    [price : {[kind |-> "fixed", value |-> 10], [kind |-> "function", value |-> 0]},
     description : {Null, Some("d")},
     expirySeconds : {Null, Some(300)},
     caveats : {Null, Some(<<"s">>)}]

AuthHeaderPool ==
    {Null, Some(<<>>), Some(<<"Bearer", " ", "t">>), Some(<<"l402", " ", "n", ":", "p">>),
     Some(<<"L402">>), Some(AuthA), Some(AuthNoColon)}

(* what ln.l402.verify resolves with, or that it rejects *)
VerifyPool ==
    {[threw |-> FALSE, valid |-> TRUE, paymentHash |-> h, caveats |-> cv, error |-> Null] :
        h \in {Null, Some("h")}, cv \in {Null, Some(<<"c">>)}}
    \cup {[threw |-> FALSE, valid |-> FALSE, paymentHash |-> Null, caveats |-> Null,
           error |-> Some(e)] : e \in {"bad preimage", "expired"}}
    \cup {[threw |-> TRUE, valid |-> FALSE, paymentHash |-> Null, caveats |-> Null,
           error |-> Some("network error")]}

(* what the pricing function returns (or resolves with), or that it fails *)
PricingPool ==
    {[threw |-> FALSE, value |-> v] : v \in {10, 42}}
    \cup {[threw |-> TRUE, value |-> 0]}

(* what ln.l402.createChallenge resolves with, or that it rejects *)
ChallengePool ==
    {[threw |-> FALSE, macaroon |-> m, invoice |-> <<"i">>,
      wwwAuthenticate |-> formatChallenge(m, <<"i">>), error |-> Null] :
        m \in {<<"m">>, <<"k">>}}
    \cup {[threw |-> TRUE, macaroon |-> <<>>, invoice |-> <<>>, wwwAuthenticate |-> <<>>,
           error |-> Some(e)] : e \in {"SDK error", "timeout"}}

IdleGate ==
    [pc |-> "idle",
     authHeader |-> Null,
     verifyCalls |-> <<>>,      \* the authorization of each ln.l402.verify call
     verified |-> Null,         \* what the verifier answered
     l402 |-> Null,             \* req.l402
     nextCalls |-> <<>>,        \* the argument of each next call: Null for next()
     pricingCalls |-> 0,        \* calls of resolvePrice
     pricing |-> Null,          \* what the pricing function answered
     price |-> Null,
     challengeCalls |-> <<>>,   \* the argument of each ln.l402.createChallenge call
     challenge |-> Null,        \* what the challenge minter answered
     status |-> Null,           \* what the response was given: status, header, body
     header |-> Null,
     body |-> Null,
     rejected |-> FALSE,        \* the handler's promise rejected
     request |-> Null]          \* which request of a client it is handling

(* authHeader && authHeader.startsWith("L402 ") *)
hasL402Scheme_AnyHeader(authHeader) == ~falsy(authHeader)
hasL402Scheme(authHeader) ==
    ~falsy(authHeader) /\ startsWith(Val(authHeader), L402Scheme)

(* the try block: verify resolved and result.valid *)
isValid_Resolved(result) == ~result.threw
isValid(result) == ~result.threw /\ result.valid

(* req.l402 *)
requestData_NoCaveats(result) == [paymentHash |-> result.paymentHash, caveats |-> Null]
requestData(result) == [paymentHash |-> result.paymentHash, caveats |-> result.caveats]

(* resolvePrice: the fixed price, or what the pricing function gives *)
resolvePrice(price, outcome) ==
    IF price.kind = "function" THEN outcome
    ELSE [threw |-> FALSE, value |-> price.value]

(* the argument of ln.l402.createChallenge *)
challengeRequest(opts, price) ==
    [amount |-> price,
     description |-> opts.description,
     expirySeconds |-> opts.expirySeconds,
     caveats |-> opts.caveats]

challengeBody_ConfiguredPrice(opts, challenge, price) ==
    [type |-> "payment_required",
     title |-> "Payment Required",
     detail |-> "Pay the included Lightning invoice to access this resource.",
     invoice |-> challenge.invoice,
     macaroon |-> challenge.macaroon,
     price |-> opts.price.value,
     unit |-> "satoshis",
     description |-> opts.description]

(* the JSON body of the 402 response *)
challengeBody(opts, challenge, price) ==
    [type |-> "payment_required",
     title |-> "Payment Required",
     detail |-> "Pay the included Lightning invoice to access this resource.",
     invoice |-> challenge.invoice,
     macaroon |-> challenge.macaroon,
     price |-> price,
     unit |-> "satoshis",
     description |-> opts.description]

(* step 3 begins: resolvePrice is called and awaited *)
CallPricing(g) == [g EXCEPT !.pc = "price", !.pricingCalls = @ + 1]

(* the middleware is called with a request: the verifier is called for an  *)
(* L402 header, otherwise the price is resolved                            *)
Received(authHeader) ==
    LET g == [IdleGate EXCEPT !.authHeader = authHeader] IN
    IF hasL402Scheme(authHeader)
    THEN [g EXCEPT !.pc = "verify", !.verifyCalls = Append(@, Val(authHeader))]
    ELSE CallPricing(g)

Middleware(authHeader) ==
    /\ gate.pc = "idle"
    /\ gate' = Received(authHeader)
    /\ UNCHANGED <<options, now, ticks, started, budget, tokens, calls, trace>>

VerifyResult_Rejects(result) ==
    LET g == [gate EXCEPT !.verified = Some(result)] IN
    /\ gate.pc = "verify"
    /\ gate' = IF isValid(result)
               THEN [g EXCEPT !.pc = "done",
                              !.l402 = Some(requestData(result)),
                              !.nextCalls = Append(@, Null)]
               ELSE [g EXCEPT !.pc = "done",
                              !.status = Some(401),
                              !.body = Some([error |-> result.error])]
    /\ UNCHANGED <<options, now, ticks, started, budget, tokens, calls, trace>>

(* ln.l402.verify settled: a valid result admits the request, anything     *)
(* else falls through to the challenge                                     *)
VerifyResult(result) ==
    LET g == [gate EXCEPT !.verified = Some(result)] IN
    /\ gate.pc = "verify"
    /\ gate' = IF isValid(result)
               THEN [g EXCEPT !.pc = "done",
                              !.l402 = Some(requestData(result)),
                              !.nextCalls = Append(@, Null)]
               ELSE CallPricing(g)
    /\ UNCHANGED <<options, now, ticks, started, budget, tokens, calls, trace>>

(* resolvePrice settled: createChallenge is called, or the handler's        *)
(* promise rejects with the pricing function's error                       *)
PriceResult(outcome) ==
    LET r == resolvePrice(options.price, outcome)
        g == [gate EXCEPT !.pricing = IF options.price.kind = "function"
                                      THEN Some(outcome) ELSE Null]
    IN
    /\ gate.pc = "price"
    /\ gate' = IF r.threw
               THEN [g EXCEPT !.pc = "done", !.rejected = TRUE]
               ELSE [g EXCEPT !.pc = "challenge",
                              !.price = Some(r.value),
                              !.challengeCalls =
                                  Append(@, challengeRequest(options, r.value))]
    /\ UNCHANGED <<options, now, ticks, started, budget, tokens, calls, trace>>

ChallengeResult_SwallowsError(challenge) ==
    LET g == [gate EXCEPT !.challenge = Some(challenge)] IN
    /\ gate.pc = "challenge"
    /\ gate' = IF challenge.threw
               THEN [g EXCEPT !.pc = "done"]
               ELSE [g EXCEPT !.pc = "done",
                              !.status = Some(402),
                              !.header = Some(challenge.wwwAuthenticate),
                              !.body = Some(challengeBody(options, challenge,
                                                          Val(gate.price)))]
    /\ UNCHANGED <<options, now, ticks, started, budget, tokens, calls, trace>>

(* ln.l402.createChallenge settled: the 402 response, or next(err) *)
ChallengeResult(challenge) ==
    LET g == [gate EXCEPT !.challenge = Some(challenge)] IN
    /\ gate.pc = "challenge"
    /\ gate' = IF challenge.threw
               THEN [g EXCEPT !.pc = "done",
                              !.nextCalls = Append(@, challenge.error)]
               ELSE [g EXCEPT !.pc = "done",
                              !.status = Some(402),
                              !.header = Some(challenge.wwwAuthenticate),
                              !.body = Some(challengeBody(options, challenge,
                                                          Val(gate.price)))]
    /\ UNCHANGED <<options, now, ticks, started, budget, tokens, calls, trace>>

GateInit ==
    /\ options \in PaywallOptionsPool
    /\ now = 0
    /\ ticks = 0
    /\ started = 0
    /\ budget = NewBudget([budgetSats |-> Null, budgetPeriod |-> Null], 0)
    /\ tokens = EmptyMap
    /\ calls = [c \in Calls |-> IdleCall]
    /\ trace = <<>>
    /\ gate = IdleGate

GateNext ==
    \/ \E authHeader \in AuthHeaderPool : Middleware(authHeader)
    \/ \E result \in VerifyPool : VerifyResult(result)
    \/ \E outcome \in PricingPool : PriceResult(outcome)
    \/ \E challenge \in ChallengePool : ChallengeResult(challenge)

GateSpec == GateInit /\ [][GateNext]_vars

---------------------------------------------------------------------------
(* A client fetching from a server whose route is behind the paywall: each *)
(* request of l402Fetch is handled by the middleware, and the route's      *)
(* handler answers 200 when the middleware calls next().  options holds    *)
(* the options of the client and of the paywall; the calls are sequential  *)
(* and take the slots of calls in turn.                                    *)

EndToEndOptionsPool ==
    {[maxPrice |-> mp, budgetSats |-> Null, budgetPeriod |-> Null, store |-> st,
      price |-> pr, description |-> Some("d"), expirySeconds |-> Null,
      caveats |-> Null] :
        mp \in {Null, Some(2)},
        st \in {Null, Some("none")},
        pr \in {[kind |-> "fixed", value |-> 10], [kind |-> "function", value |-> 0]}}

(* the credential that settles the server's invoice *)
PaidCredential == AuthA

(* ln.l402.verify on the server: valid for the paid credential only *)
EndToEndVerifyPool(authorization) ==
    {r \in VerifyPool : ~r.threw /\ (r.valid <=> authorization = PaidCredential)}

EndToEndPricingPool == {o \in PricingPool : ~o.threw}

EndToEndChallengePool == {ch \in ChallengePool : ~ch.threw}

(* the request the call is waiting for an answer to *)
Awaiting(c) == calls[c].pc \in {"fetch", "cachedFetch", "retry"}
RequestId(c) == <<started, Len(calls[c].requests)>>
Outstanding(c) == calls[c].requests[Len(calls[c].requests)]

(* the response the client receives: the middleware's 402, the route's 200 *)
(* after next(), or the error handler's 500 after next(err)                *)
ServerResponse(g) ==
    IF g.status = Some(402)
    THEN [status |-> 402,
          wwwAuthenticate |-> g.header,
          body |-> Some([price |-> Some(Val(g.body).price), expiresAt |-> Null])]
    ELSE [status |-> IF g.nextCalls = <<Null>> THEN 200 ELSE 500,
          wwwAuthenticate |-> Null,
          body |-> Null]

(* the request of call c reaches the middleware *)
Receive(c) ==
    /\ Awaiting(c)
    /\ gate.pc \in {"idle", "done"}
    /\ gate.request # Some(RequestId(c))
    /\ gate' = [Received(Outstanding(c).authorization) EXCEPT
                    !.request = Some(RequestId(c))]
    /\ UNCHANGED <<options, now, ticks, started, budget, tokens, calls, trace>>

(* the server has answered the request call c is waiting on *)
Served(c) ==
    /\ Awaiting(c)
    /\ gate.pc = "done"
    /\ gate.request = Some(RequestId(c))
    /\ ~gate.rejected

EndToEndInit ==
    /\ options \in EndToEndOptionsPool
    /\ now = 0
    /\ ticks = 0
    /\ started = 0
    /\ budget = NewBudget(options, 0)
    /\ tokens = EmptyMap
    /\ calls = [c \in Calls |-> IdleCall]
    /\ trace = <<>>
    /\ gate = IdleGate

EndToEndNext ==
    \/ \E c \in Calls, url \in {UrlA, UrlB} :
          /\ \A o \in Calls : ~InProgress(o)
          /\ c = (started % 2) + 1
          /\ Begin(c, url)
    \/ \E c \in Calls : AfterGet(c)
    \/ \E c \in Calls : AfterDelete(c)
    \/ \E c \in Calls : AfterJson(c)
    \/ \E c \in Calls, payment \in ConcurrentPaymentPool : PayResult(c, payment)
    \/ \E c \in Calls : AfterSet(c)
    \/ \E c \in Calls : Receive(c)
    \/ /\ gate.pc = "verify"
       /\ \E result \in EndToEndVerifyPool(Val(gate.authHeader)) :
             VerifyResult(result)
    \/ \E outcome \in EndToEndPricingPool : PriceResult(outcome)
    \/ \E challenge \in EndToEndChallengePool : ChallengeResult(challenge)
    \/ \E c \in Calls : Served(c) /\ CachedResponse(c, ServerResponse(gate))
    \/ \E c \in Calls : Served(c) /\ Response(c, ServerResponse(gate))
    \/ \E c \in Calls : Served(c) /\ RetryResponse(c, ServerResponse(gate))

EndToEndSpec == EndToEndInit /\ [][EndToEndNext]_vars

---------------------------------------------------------------------------
(* A client used sequentially with each kind of store (in-memory, disabled, *)
(* supplied by the caller), fetching URLs that differ in their query       *)
(* string.  The calls take the slots of calls in turn.                     *)

CachingOptionsPool ==
    [maxPrice : {Null},
     budgetSats : {Null},
     budgetPeriod : {Null},
     store : {Null, Some("none"), Some("custom")}]

CachingInit ==
    /\ options \in CachingOptionsPool
    /\ now = 0
    /\ ticks = 0
    /\ started = 0
    /\ budget = NewBudget(options, 0)
    /\ tokens = EmptyMap
    /\ calls = [c \in Calls |-> IdleCall]
    /\ trace = <<>>
    /\ gate = Null

CachingNext ==
    \/ \E c \in Calls, url \in UrlPool :
          /\ \A o \in Calls : ~InProgress(o)
          /\ c = (started % 2) + 1
          /\ Begin(c, url)
    \/ \E c \in Calls : AfterGet(c)
    \/ \E c \in Calls, res \in ConcurrentAnswerPool : CachedResponse(c, res)
    \/ \E c \in Calls : AfterDelete(c)
    \/ \E c \in Calls, res \in ConcurrentResponsePool : Response(c, res)
    \/ \E c \in Calls : AfterJson(c)
    \/ \E c \in Calls, payment \in ConcurrentPaymentPool : PayResult(c, payment)
    \/ \E c \in Calls : AfterSet(c)
    \/ \E c \in Calls, res \in ConcurrentAnswerPool : RetryResponse(c, res)
    \/ \E c \in Calls : FetchRejects(c)

CachingSpec == CachingInit /\ [][CachingNext]_vars

(* the same client when the store, the server and the payer each answer:   *)
(* every await of a call in progress eventually resolves                   *)
Continue ==
    \/ \E c \in Calls : AfterGet(c)
    \/ \E c \in Calls, res \in ConcurrentAnswerPool : CachedResponse(c, res)
    \/ \E c \in Calls : AfterDelete(c)
    \/ \E c \in Calls, res \in ConcurrentResponsePool : Response(c, res)
    \/ \E c \in Calls : AfterJson(c)
    \/ \E c \in Calls, payment \in ConcurrentPaymentPool : PayResult(c, payment)
    \/ \E c \in Calls : AfterSet(c)
    \/ \E c \in Calls, res \in ConcurrentAnswerPool : RetryResponse(c, res)

AnsweredSpec == CachingSpec /\ WF_vars(Continue)

---------------------------------------------------------------------------
(* The header codec used directly.  trace holds the latest call (which     *)
(* function, its arguments, its result), preceded by the format call whose *)
(* result it parsed, if it parsed one.                                     *)

SeqsUpTo(S, n) == UNION {[1..k -> S] : k \in 0..n}

(* macaroons and preimages, with and without colons *)
CredentialPartPool == SeqsUpTo({"a", "c", Colon}, MaxLen)

(* macaroons and invoices, with and without quotes and field names *)
ChallengePartPool == SeqsUpTo({"a", Quote, "macaroon=", "invoice="}, MaxLen)

(* Authorization values: a scheme or none, then a token with any colons *)
AuthorizationPool ==
    {prefix \o rest :
        prefix \in {<<>>, <<"L402">>, L402Scheme, <<"l402", " ">>,
                    <<"Bearer", " ">>, <<" ">> \o L402Scheme},
        rest \in SeqsUpTo({"a", "c", Colon}, 2 * MaxLen + 1)}

(* WWW-Authenticate values *)
WwwAuthenticatePool ==
    {<<>>, ChallengeA, ChallengeNoInvoice,
     <<"Basic", " ", "realm=test">>,
     L402Scheme \o InvoiceKey \o <<Quote, "i", Quote>>,
     L402Scheme \o MacaroonKey \o <<Quote, "m", Quote, ",", " ", " ">>
         \o InvoiceKey \o <<Quote, "i", Quote>>,
     L402Scheme \o MacaroonKey \o <<Quote, Quote, ",", " ">>
         \o InvoiceKey \o <<Quote, "i", Quote>>}

CodecCall(op, args, out) == [op |-> op, args |-> args, out |-> out]

(* the results of the latest call, when it was a call of the function op *)
Formatted(op) ==
    IF trace # <<>> /\ trace[Len(trace)].op = op THEN {trace[Len(trace)].out} ELSE {}

(* the headers a caller has at hand: those of the pool at first, then the  *)
(* result of the format call it has made                                   *)
AtHand(pool, op) == IF trace = <<>> THEN pool ELSE Formatted(op)

(* the trace after a parse call: it keeps the format call it parsed *)
Parsed(from, entry) ==
    IF entry.args[1] \in Formatted(from)
    THEN <<trace[Len(trace)], entry>>
    ELSE <<entry>>

FormatAuthorization(macaroon, preimage) ==
    /\ trace = <<>>
    /\ trace' = <<CodecCall("formatAuthorization", <<macaroon, preimage>>,
                            formatAuthorization(macaroon, preimage))>>
    /\ UNCHANGED <<options, now, ticks, started, budget, tokens, calls, gate>>

ParseAuthorization(header) ==
    /\ trace' = Parsed("formatAuthorization",
                       CodecCall("parseAuthorization", <<header>>,
                                 parseAuthorization(header)))
    /\ UNCHANGED <<options, now, ticks, started, budget, tokens, calls, gate>>

FormatChallenge(macaroon, invoice) ==
    /\ trace = <<>>
    /\ trace' = <<CodecCall("formatChallenge", <<macaroon, invoice>>,
                            formatChallenge(macaroon, invoice))>>
    /\ UNCHANGED <<options, now, ticks, started, budget, tokens, calls, gate>>

ParseChallenge(header) ==
    /\ trace' = Parsed("formatChallenge",
                       CodecCall("parseChallenge", <<header>>,
                                 parseChallenge(header)))
    /\ UNCHANGED <<options, now, ticks, started, budget, tokens, calls, gate>>

CodecInit ==
    /\ options = [maxPrice |-> Null, budgetSats |-> Null,
                  budgetPeriod |-> Null, store |-> Null]
    /\ now = 0
    /\ ticks = 0
    /\ started = 0
    /\ budget = NewBudget(options, 0)
    /\ tokens = EmptyMap
    /\ calls = [c \in Calls |-> IdleCall]
    /\ trace = <<>>
    /\ gate = Null

CodecNext ==
    \/ \E macaroon, preimage \in CredentialPartPool :
          FormatAuthorization(macaroon, preimage)
    \/ \E header \in AtHand(AuthorizationPool, "formatAuthorization") :
          ParseAuthorization(header)
    \/ \E macaroon, invoice \in ChallengePartPool :
          FormatChallenge(macaroon, invoice)
    \/ \E header \in AtHand(WwwAuthenticatePool, "formatChallenge") :
          ParseChallenge(header)

CodecSpec == CodecInit /\ [][CodecNext]_vars

---------------------------------------------------------------------------
(* Properties.  They are stated over a call's log: requests[i] is the i-th *)
(* outbound request of the call and responses[i] the answer to it.         *)

(* the price hint of the 402 response the call is processing *)
Hint(call) ==
    LET body == Val(call.res).body
    IN  IF IsNull(body) \/ IsNull(Val(body).price) THEN 0 ELSE Val(Val(body).price)

(* the configured per-request ceiling *)
Ceiling == IF IsNull(options.maxPrice) THEN 1000 ELSE Val(options.maxPrice)

(* the call has read the 402 body and run its price checks *)
Priced(call) == ~IsNull(call.res) /\ call.pc # "json"

(* the payer's result is one l402Fetch can use *)
Usable(payment) ==
    /\ payment.status # "failed"
    /\ ~IsNull(payment.authorization)
    /\ Val(payment.authorization) # <<>>

Retries(call) == {i \in 1..Len(call.requests) : call.requests[i].kind = "retry"}

(* the call presented a cached credential and the server answered it *)
CachedAnswered(call) ==
    /\ Len(call.responses) >= 1
    /\ call.requests[1].kind = "cachedFetch"

(* is every entry of the store m the entry m0 had under the same key? *)
NothingWritten(m, m0) ==
    \A k \in DOMAIN m : k \in DOMAIN m0 /\ m[k] = m0[k]

(* C1: when a fetch call presents a cached, non-expired credential and the *)
(* server answers with a status other than 402, the call returns that      *)
(* response after that single request, the payer is not invoked, and the   *)
(* store and the budget are what they were when the call began.            *)
C1_CacheHitNoPayment ==
    \A c \in Calls :
        LET call == calls[c] IN
        (CachedAnswered(call) /\ call.responses[1].status # 402)
        => /\ call.requests[1].authorization = Some(Val(call.cached).authorization)
           /\ call.pc = "done"
           /\ call.result = Some(call.responses[1])
           /\ Len(call.requests) = 1
           /\ call.payerCalls = <<>>
           /\ tokens = Val(call.before).tokens
           /\ budget = Val(call.before).budget

C1_Witness ==
    \E c \in Calls :
        /\ calls[c].pc = "done"
        /\ CachedAnswered(calls[c])
        /\ ~IsNull(Val(calls[c].cached).expiresAt)
        /\ Val(calls[c].result).status = 200

(* C2: when the payer returns a non-failed result with an authorization    *)
(* value, the payer has been invoked exactly once, with the raw            *)
(* WWW-Authenticate value of the 402 answer to the unauthenticated         *)
(* request; once the credential is stored the call issues exactly one      *)
(* retry, whose Authorization is the payer's authorization value; and the  *)
(* call returns the retry's response when its status is not 402.           *)
C2_PayAndRetry ==
    \A c \in Calls :
        LET call == calls[c]
            n == Len(call.requests)
            f == CHOOSE i \in 1..n : call.requests[i].kind = "fetch"
        IN
        (~IsNull(call.payment) /\ Usable(Val(call.payment)))
        => /\ call.responses[f].status = 402
           /\ call.requests[f].authorization = Null
           /\ call.payerCalls = <<Val(call.responses[f].wwwAuthenticate)>>
           /\ call.pc \in {"set", "retry", "done", "failed"}
           /\ call.pc = "set" => Retries(call) = {}
           /\ call.pc # "set"
              => /\ Retries(call) = {n}
                 /\ n = f + 1
                 /\ call.requests[n].authorization = Val(call.payment).authorization
           /\ (call.pc # "set" /\ Len(call.responses) = n)
              => IF call.responses[n].status # 402
                 THEN call.pc = "done" /\ call.result = Some(call.responses[n])
                 ELSE call.pc = "failed"

C2_Witness ==
    \E c \in Calls :
        /\ calls[c].pc = "done"
        /\ ~IsNull(calls[c].payment)
        /\ Val(calls[c].payment).authorization = Some(AuthNoColon)
        /\ Val(calls[c].result).status = 200

(* C3: when a call found no cached credential and its unauthenticated      *)
(* request is answered with a status other than 402, that response is      *)
(* returned as it is, the payer is not invoked, and the store and the      *)
(* budget are what they were when the call began.                          *)
C3_Non402Passthrough ==
    \A c \in Calls :
        LET call == calls[c] IN
        (IsNull(call.cached) /\ Len(call.responses) >= 1
            /\ call.responses[1].status # 402)
        => /\ call.requests = <<[kind |-> "fetch", authorization |-> Null]>>
           /\ call.pc = "done"
           /\ call.result = Some(call.responses[1])
           /\ call.payerCalls = <<>>
           /\ tokens = Val(call.before).tokens
           /\ budget = Val(call.before).budget

C3_Witness ==
    \E c \in Calls :
        /\ calls[c].pc = "done"
        /\ IsNull(calls[c].cached)
        /\ Len(calls[c].requests) = 1
        /\ Val(calls[c].result).status = 500
        /\ tokens # EmptyMap
        /\ budget.spent > 0

(* C4: a price hint strictly greater than maxPrice (1000 when the option   *)
(* is not given) makes the call fail with the payer not invoked, the       *)
(* budget untouched and no credential stored; a price hint equal to        *)
(* maxPrice is not rejected by the ceiling.                                *)
C4_PerRequestCeiling ==
    \A c \in Calls :
        LET call == calls[c] IN
        Priced(call)
        => /\ Hint(call) > Ceiling
              => /\ call.pc = "failed"
                 /\ ~IsNull(call.error)
                 /\ call.payerCalls = <<>>
                 /\ call.stored = <<>>
                 /\ call.recorded = <<>>
                 /\ budget = Val(call.before).budget
                 /\ NothingWritten(tokens, Val(call.before).tokens)
           /\ Hint(call) = Ceiling
              => ~(/\ call.pc = "failed"
                   /\ Val(call.error).message[1] = "exceeds maxPrice")

C4_Witness ==
    \E c \in Calls :
        /\ calls[c].pc = "failed"
        /\ Priced(calls[c])
        /\ Hint(calls[c]) > Ceiling
        /\ budget.spent > 0

(* C5: no amount charged for a payment (the amount recorded against the    *)
(* budget) exceeds maxPrice.                                               *)
C5_ChargedWithinMaxPrice ==
    \A c \in Calls :
        \A i \in 1..Len(calls[c].recorded) : calls[c].recorded[i] <= Ceiling

(* the budget's spent counter at the time of the call's budget.check,      *)
(* after the lazy period reset                                             *)
SpentAtCheck(call) ==
    LET b == Val(call.before).budget
        elapsed == /\ ~IsNull(b.periodMs)
                   /\ Val(call.checkedAt) - b.periodStart >= Val(b.periodMs)
    IN  IF elapsed THEN 0 ELSE b.spent

(* C6: on a client with a total budget, a call whose price hint p passes   *)
(* the ceiling and satisfies spent + p > totalLimit (spent taken after the *)
(* lazy period reset) fails with the budget-exceeded error reporting p,    *)
(* spent and the limit; the payer is not invoked, no credential is stored, *)
(* nothing is recorded and spent keeps that value.                         *)
C6_CumulativeBudgetRefusal ==
    \A c \in Calls :
        LET call == calls[c]
            total == Val(budget.totalSats)
        IN
        (/\ Priced(call)
         /\ ~IsNull(budget.totalSats)
         /\ Hint(call) <= Ceiling
         /\ SpentAtCheck(call) + Hint(call) > total)
        => /\ call.pc = "failed"
           /\ call.error = Some([name |-> "L402BudgetExceededError",
                                 message |-> <<"would exceed budget", Hint(call),
                                               SpentAtCheck(call), total>>])
           /\ call.payerCalls = <<>>
           /\ call.stored = <<>>
           /\ call.recorded = <<>>
           /\ budget.spent = SpentAtCheck(call)
           /\ NothingWritten(tokens, Val(call.before).tokens)

(* the second of two payments of 2 against a total of 3 is refused *)
C6_Witness ==
    \E c \in Calls :
        /\ started = 2
        /\ calls[c].pc = "failed"
        /\ calls[c].error = Some([name |-> "L402BudgetExceededError",
                                  message |-> <<"would exceed budget", 2, 2, 3>>])

(* C7: on a client with a total budget, spent never exceeds the total.     *)
C7_SpentWithinTotal ==
    ~IsNull(budget.totalSats) => budget.spent <= Val(budget.totalSats)

(* C8: when a cached credential was presented and answered with 402, it    *)
(* has been deleted from the store and the next request carries no         *)
(* credential; when the payer then returns a usable result, that is the    *)
(* only payment of the call and the credential obtained is the store's     *)
(* entry for the URL.                                                      *)
C8_StaleCredentialRecovery ==
    \A c \in Calls :
        LET call == calls[c] IN
        (CachedAnswered(call) /\ call.responses[1].status = 402)
        => /\ call.deleted = 1
           /\ call.stored = <<>> => IsNull(storeGet(store, tokens, call.url))
           /\ call.pc # "delete"
              => /\ Len(call.requests) >= 2
                 /\ call.requests[2] = [kind |-> "fetch", authorization |-> Null]
           /\ (~IsNull(call.payment) /\ Usable(Val(call.payment)))
              => /\ Len(call.payerCalls) = 1
                 /\ Len(call.stored) = 1
                 /\ call.stored[1].authorization = Val(Val(call.payment).authorization)
                 /\ storeGet(store, tokens, call.url) = Some(call.stored[1])

C8_Witness ==
    \E c \in Calls :
        /\ calls[c].pc = "done"
        /\ CachedAnswered(calls[c])
        /\ calls[c].responses[1].status = 402
        /\ Len(calls[c].stored) = 1
        /\ calls[c].stored[1].authorization # Val(calls[c].cached).authorization

(* C9: when the retry is answered with 402 the call has failed with the    *)
(* payment-failure error, after one payer invocation and one retry, and    *)
(* a failed call has no request outstanding.                               *)
C9_NoPaymentLoop ==
    \A c \in Calls :
        LET call == calls[c]
            n == Len(call.requests)
        IN
        /\ (/\ n >= 1
            /\ Len(call.responses) = n
            /\ call.requests[n].kind = "retry"
            /\ call.responses[n].status = 402)
           => /\ call.pc = "failed"
              /\ Val(call.error).name = "L402PaymentFailedError"
              /\ Len(call.payerCalls) = 1
              /\ Retries(call) = {n}
        /\ call.pc \in {"done", "failed"} => Len(call.responses) = n

C9_Witness ==
    \E c \in Calls :
        /\ calls[c].pc = "failed"
        /\ Retries(calls[c]) # {}
        /\ calls[c].error = Some([name |-> "L402PaymentFailedError",
               message |-> <<"Server returned 402 after successful payment">>])

(* C10: when the payer returns status "failed", or no authorization value, *)
(* the call fails with the payment-failure error; it writes no credential  *)
(* to the store, records nothing against the budget and sends no retry.    *)
C10_UnusablePayerResult ==
    \A c \in Calls :
        LET call == calls[c] IN
        (~IsNull(call.payment) /\ ~Usable(Val(call.payment)))
        => /\ call.pc = "failed"
           /\ Val(call.error).name = "L402PaymentFailedError"
           /\ call.stored = <<>>
           /\ NothingWritten(tokens, Val(call.before).tokens)
           /\ call.recorded = <<>>
           /\ budget.spent \in {Val(call.before).budget.spent, 0}
           /\ Retries(call) = {}

C10_Witness ==
    \E c \in Calls :
        /\ calls[c].pc = "failed"
        /\ ~IsNull(calls[c].payment)
        /\ Val(calls[c].payment).status = "failed"
        /\ Val(calls[c].payment).authorization = Some(AuthA)
        /\ budget.spent > 0

(* the header value holds the scheme, a quoted macaroon and a quoted invoice *)
WellFormedChallenge(h) ==
    /\ startsWith(h, L402Scheme)
    /\ \E i, j \in 1..Len(h) : MatchesAt(h, MacaroonKey, i, j)
    /\ \E i, j \in 1..Len(h) : MatchesAt(h, InvoiceKey, i, j)

(* the answer carries no challenge the client can use *)
NoChallenge(res) ==
    \/ IsNull(res.wwwAuthenticate)
    \/ ~WellFormedChallenge(Val(res.wwwAuthenticate))

(* the call's request without a credential was answered 402 with no usable *)
(* challenge                                                               *)
ProtocolFailure(call) ==
    LET n == Len(call.responses) IN
    /\ n >= 1
    /\ call.requests[n].kind = "fetch"
    /\ call.responses[n].status = 402
    /\ NoChallenge(call.responses[n])

(* C11: a 402 answer with no WWW-Authenticate header, or with one that     *)
(* does not parse as a challenge, makes the call fail with the plain       *)
(* protocol error; the payer is not invoked, the budget is what it was     *)
(* when the call began, no credential is stored and no further request is  *)
(* sent.                                                                   *)
C11_ProtocolErrorsFailFast ==
    \A c \in Calls :
        LET call == calls[c] IN
        ProtocolFailure(call)
        => /\ call.pc = "failed"
           /\ Val(call.error).name = "L402Error"
           /\ call.payerCalls = <<>>
           /\ IsNull(call.payment)
           /\ budget = Val(call.before).budget
           /\ call.recorded = <<>>
           /\ call.stored = <<>>
           /\ NothingWritten(tokens, Val(call.before).tokens)
           /\ Retries(call) = {}
           /\ Len(call.requests) = Len(call.responses)

(* a stale cached credential, then a 402 whose challenge lacks the invoice *)
C11_Witness ==
    \E c \in Calls :
        /\ calls[c].pc = "failed"
        /\ calls[c].deleted = 1
        /\ Len(calls[c].responses) = 2
        /\ calls[c].responses[2].wwwAuthenticate = Some(ChallengeNoInvoice)
        /\ budget.spent > 0

(* the causes of a failure, read from the call's log *)
BudgetCause(call) ==
    /\ Priced(call)
    /\ \/ Hint(call) > Ceiling
       \/ /\ ~IsNull(budget.totalSats)
          /\ SpentAtCheck(call) + Hint(call) > Val(budget.totalSats)

PaymentCause(call) ==
    \/ ~IsNull(call.payment) /\ ~Usable(Val(call.payment))
    \/ LET n == Len(call.responses) IN
       /\ n >= 1
       /\ call.requests[n].kind = "retry"
       /\ call.responses[n].status = 402

(* C12: a failed call reports exactly one error, whose kind is the budget  *)
(* kind exactly when the cause is the ceiling or the cumulative limit, the *)
(* payment-failure kind exactly when the cause is an unusable payer result *)
(* or a 402 after payment, and the plain protocol kind exactly when the    *)
(* cause is a missing or malformed challenge; a call that has not failed   *)
(* reports no error.                                                       *)
C12_ErrorKindByCause ==
    \A c \in Calls :
        LET call == calls[c] IN
        /\ call.pc # "failed" => IsNull(call.error)
        /\ call.pc = "failed"
           => /\ ~IsNull(call.error)
              /\ IsNull(call.result)
              /\ Val(call.error).name \in
                    {"L402Error", "L402BudgetExceededError", "L402PaymentFailedError"}
              /\ Val(call.error).name = "L402BudgetExceededError" <=> BudgetCause(call)
              /\ Val(call.error).name = "L402PaymentFailedError" <=> PaymentCause(call)
              /\ Val(call.error).name = "L402Error" <=> ProtocolFailure(call)

(* a refusal by the default ceiling *)
C12_Witness ==
    \E c \in Calls :
        /\ calls[c].pc = "failed"
        /\ IsNull(options.maxPrice)
        /\ Val(calls[c].error).name = "L402BudgetExceededError"
        /\ Val(calls[c].error).message[1] = "exceeds maxPrice"

(* the length of the configured period *)
PeriodLength == 60 * 60 * 1000

(* had the period run out when the direct call e on the Budget was made? *)
PeriodOver(e) ==
    /\ options.budgetPeriod = Some("hour")
    /\ e.at - e.before.periodStart >= PeriodLength

(* C13, as stated: with a period configured, every check or record call    *)
(* made when now - periodStart >= periodLength leaves periodStart at the   *)
(* time of the call and spent at what the call itself added to zero.       *)
C13_ResetOnAnyCall ==
    trace # <<>>
    => LET e == trace[1] IN
       PeriodOver(e)
       => /\ e.after.periodStart = e.at
          /\ e.after.spent = IF e.op = "record" THEN e.price ELSE 0

(* C13, amended: with a period configured, a record call, or a check call  *)
(* on a budget with a total limit, made when now - periodStart >=          *)
(* periodLength sets spent to 0 and periodStart to the time of the call    *)
(* before doing anything else, however long ago the period ended; so a     *)
(* check of a price within the total limit then succeeds, whatever was     *)
(* spent before.                                                           *)
C13_ResetOnRecordOrLimitedCheck ==
    trace # <<>>
    => LET e == trace[1] IN
       (PeriodOver(e) /\ (e.op = "record" \/ ~IsNull(options.budgetSats)))
       => /\ e.after.periodStart = e.at
          /\ e.after.spent = IF e.op = "record" THEN e.price ELSE 0
          /\ (e.op = "check" /\ e.price <= Val(options.budgetSats))
             => IsNull(e.threw)

(* an exhausted budget, checked more than two periods later *)
C13_Witness ==
    /\ trace # <<>>
    /\ trace[1].op = "check"
    /\ trace[1].before.spent >= 3
    /\ trace[1].at - trace[1].before.periodStart > 2 * PeriodLength
    /\ trace[1].price = 3
    /\ IsNull(trace[1].threw)
    /\ budget.periodStart = now

(* spent as a call on the Budget finds it once the lazy reset is done *)
SpentAfterReset(e) == IF PeriodOver(e) THEN 0 ELSE e.before.spent

(* C14: check(price) never fails when no total limit is configured; with a *)
(* limit it fails, with the budget-exceeded error, exactly when spent +    *)
(* price > totalLimit, spent being the value after the lazy reset.         *)
C14_CheckDecision ==
    (trace # <<>> /\ trace[1].op = "check")
    => LET e == trace[1] IN
       IF IsNull(options.budgetSats) THEN IsNull(e.threw)
       ELSE /\ ~IsNull(e.threw)
               <=> SpentAfterReset(e) + e.price > Val(options.budgetSats)
            /\ ~IsNull(e.threw)
               => Val(e.threw).name = "L402BudgetExceededError"

(* a price that brings spent exactly to the limit is accepted *)
C14_Witness ==
    /\ trace # <<>>
    /\ trace[1].op = "check"
    /\ ~IsNull(options.budgetSats)
    /\ trace[1].before.spent > 0
    /\ SpentAfterReset(trace[1]) + trace[1].price = Val(options.budgetSats)
    /\ IsNull(trace[1].threw)

(* C15: whether check(price) succeeds or fails, the budget after it is the *)
(* budget before it, or, when the period has elapsed, that budget with     *)
(* spent zeroed and periodStart at the time of the call; only record       *)
(* increases spent.                                                        *)
C15_CheckIsPureValidation ==
    trace # <<>>
    => LET e == trace[1] IN
       /\ e.op = "check"
          => \/ e.after = e.before
             \/ /\ PeriodOver(e)
                /\ e.after = [e.before EXCEPT !.spent = 0, !.periodStart = e.at]
       /\ e.after.spent > e.before.spent => e.op = "record"

(* a successful check of a positive price on a budget partly spent *)
C15_Witness ==
    /\ trace # <<>>
    /\ trace[1].op = "check"
    /\ trace[1].price = 1
    /\ trace[1].before.spent = 2
    /\ ~IsNull(options.budgetSats)
    /\ IsNull(trace[1].threw)
    /\ budget.spent = 2

(* u is the URL b, which has no query, no fragment and no trailing slash, *)
(* followed by slashes and then, possibly, a query or a fragment           *)
Decorates(u, b) ==
    /\ Len(b) >= 1
    /\ b[1] = Origin
    /\ b[Len(b)] # "/"
    /\ \A i \in 1..Len(b) : b[i] \notin {"?", "#"}
    /\ startsWith(u, b)
    /\ \E k \in Len(b)..Len(u) :
          /\ \A i \in (Len(b) + 1)..k : u[i] = "/"
          /\ k < Len(u) => u[k + 1] \in {"?", "#"}

(* the URLs u1 and u2 differ only in query string, fragment and trailing   *)
(* slashes                                                                 *)
SameResource(u1, u2) ==
    \E n \in 1..Len(u1) : Decorates(u1, SubSeq(u1, 1, n)) /\ Decorates(u2, SubSeq(u1, 1, n))

AbsoluteUrls == {u \in StoreUrlPool : u[1] = Origin}

(* C16: in the in-memory store, URLs that differ only in query string,     *)
(* fragment and trailing slashes read the same entry; set(u2, c) makes     *)
(* every such URL read c, whatever was held before (last write wins);      *)
(* delete(u2) makes every such URL read null; neither changes what any     *)
(* other URL reads, and get changes nothing; no two keys of the store      *)
(* stand for the same URL.                                                 *)
C16_StoreKey ==
    /\ \A u1, u2 \in AbsoluteUrls :
          SameResource(u1, u2)
          => storeGet(store, tokens, u1) = storeGet(store, tokens, u2)
    /\ \A k1, k2 \in DOMAIN tokens :
          (k1[1] = Origin /\ k2[1] = Origin /\ SameResource(k1, k2)) => k1 = k2
    /\ trace # <<>>
       => LET e == trace[1] IN
          \A u \in AbsoluteUrls :
            /\ e.op = "get" => tokens = e.before
            /\ (e.op = "get" /\ SameResource(u, e.url))
               => e.result = storeGet(store, e.before, u)
            /\ (e.op = "set" /\ SameResource(u, e.url))
               => storeGet(store, tokens, u) = e.token
            /\ (e.op = "delete" /\ SameResource(u, e.url))
               => IsNull(storeGet(store, tokens, u))
            /\ (e.url[1] = Origin /\ ~SameResource(u, e.url))
               => storeGet(store, tokens, u) = storeGet(store, e.before, u)

(* a set under a URL with a query replaces the credential held for the     *)
(* same URL, and the URL with slashes, query and fragment reads it         *)
C16_Witness ==
    /\ trace # <<>>
    /\ trace[1].op = "set"
    /\ trace[1].url = UrlAq
    /\ ~IsNull(storeGet(store, trace[1].before, UrlA))
    /\ storeGet(store, trace[1].before, UrlA) # trace[1].token
    /\ storeGet(store, tokens, UrlA \o <<"/", "?", "q", "#", "f">>) = trace[1].token
    /\ Cardinality(DOMAIN tokens) = 1

(* the call's request without a credential was answered 402 with a usable  *)
(* challenge and a price that passes the ceiling and the budget            *)
Payable(call) ==
    /\ Priced(call)
    /\ Hint(call) <= Ceiling
    /\ IsNull(budget.totalSats)
          \/ SpentAtCheck(call) + Hint(call) <= Val(budget.totalSats)

(* C17: with the "none" store nothing is ever held, every get returns      *)
(* null, no request of a call carries a cached credential, and every call  *)
(* whose 402 passes the ceiling and the budget invokes the payer, whatever *)
(* was paid before.                                                        *)
C17_DisabledStore ==
    options.store = Some("none")
    => /\ tokens = EmptyMap
       /\ \A u \in UrlPool : IsNull(storeGet(store, tokens, u))
       /\ \A c \in Calls :
            LET call == calls[c] IN
            /\ IsNull(call.cached)
            /\ call.deleted = 0
            /\ \A i \in 1..Len(call.requests) :
                    /\ call.requests[i].kind # "cachedFetch"
                    /\ call.requests[i].kind = "fetch"
                       => call.requests[i].authorization = Null
            /\ Payable(call) => Len(call.payerCalls) = 1

(* a second payment on a client that has already paid *)
C17_Witness ==
    \E c \in Calls :
        /\ options.store = Some("none")
        /\ started = 2
        /\ calls[c].pc = "done"
        /\ Len(calls[c].recorded) = 1
        /\ budget.spent > calls[c].recorded[1]

(* the request carries an Authorization header with the L402 prefix *)
PresentsL402(g) ==
    /\ ~IsNull(g.authHeader)
    /\ Len(Val(g.authHeader)) >= 2
    /\ Val(g.authHeader)[1] = "L402"
    /\ Val(g.authHeader)[2] = " "

(* the verifier has answered, and reported valid *)
VerifiedValid(g) ==
    /\ ~IsNull(g.verified)
    /\ ~Val(g.verified).threw
    /\ Val(g.verified).valid

(* the verifier has reported invalid, or has thrown *)
VerificationFailed(g) ==
    /\ ~IsNull(g.verified)
    /\ Val(g.verified).threw \/ ~Val(g.verified).valid

(* the request was passed on to the protected handler *)
Admitted(g) == \E i \in 1..Len(g.nextCalls) : IsNull(g.nextCalls[i])

(* the gate sent nothing *)
NoResponse(g) == IsNull(g.status) /\ IsNull(g.header) /\ IsNull(g.body)

(* the challenge minter has answered with a challenge *)
Minted(g) == ~IsNull(g.challenge) /\ ~Val(g.challenge).threw

(* the gate has gone on to issue a challenge: it resolves the price once,  *)
(* calls the minter once the price is known, and answers 402 with the      *)
(* minter's header once the minter has answered with a challenge           *)
IssuesChallenge(g) ==
    /\ g.pricingCalls = 1
    /\ ~IsNull(g.price) => Len(g.challengeCalls) = 1
    /\ Minted(g)
       => /\ g.pc = "done"
          /\ g.status = Some(402)
          /\ g.header = Some(Val(g.challenge).wwwAuthenticate)
          /\ ~IsNull(g.body)
          /\ g.nextCalls = <<>>

(* C18: when the request presents an L402 Authorization header and the     *)
(* verifier reports valid, req.l402 holds the verifier's payment hash and  *)
(* caveat list, next() has been called once with no argument, the          *)
(* challenge minter has not been called and no response has been sent.     *)
C18_GateAdmitsValid ==
    (PresentsL402(gate) /\ VerifiedValid(gate))
    => /\ gate.l402 = Some([paymentHash |-> Val(gate.verified).paymentHash,
                            caveats |-> Val(gate.verified).caveats])
       /\ gate.nextCalls = <<Null>>
       /\ gate.pc = "done"
       /\ gate.pricingCalls = 0
       /\ gate.challengeCalls = <<>>
       /\ NoResponse(gate)
       /\ ~gate.rejected

C18_Witness ==
    /\ gate.pc = "done"
    /\ gate.authHeader = Some(AuthA)
    /\ gate.l402 = Some([paymentHash |-> Some("h"), caveats |-> Some(<<"c">>)])
    /\ gate.nextCalls = <<Null>>

(* C19: when the verifier reports invalid or throws, the request is never  *)
(* passed on to the protected handler and req.l402 is never set; the gate  *)
(* goes on to issue a challenge and answers 402 with it; and no error      *)
(* handed to the framework is the verifier's.                              *)
C19_GateNeverAdmitsOnFailedVerification ==
    VerificationFailed(gate)
    => /\ ~Admitted(gate)
       /\ IsNull(gate.l402)
       /\ IssuesChallenge(gate)
       /\ \A i \in 1..Len(gate.nextCalls) :
             gate.nextCalls[i] # Val(gate.verified).error
       /\ (gate.pc = "done" /\ ~Minted(gate))
          => gate.rejected \/ Val(gate.challenge).threw

(* the verifier threw, and the gate answered 402 *)
C19_Witness ==
    /\ gate.pc = "done"
    /\ ~IsNull(gate.verified)
    /\ Val(gate.verified).threw
    /\ gate.status = Some(402)
    /\ gate.nextCalls = <<>>

(* C20: once the middleware has read the request, the verifier has been    *)
(* called once, with the raw header value, when the request presents an    *)
(* L402 Authorization header, and not at all otherwise; a request that     *)
(* presents none is not admitted, and the gate goes on to issue a          *)
(* challenge and answers 402 with it.                                      *)
C20_VerifierOnlyForL402 ==
    gate.pc # "idle"
    => /\ gate.verifyCalls =
             IF PresentsL402(gate) THEN <<Val(gate.authHeader)>> ELSE <<>>
       /\ ~PresentsL402(gate)
          => /\ IsNull(gate.verified)
             /\ ~Admitted(gate)
             /\ IsNull(gate.l402)
             /\ IssuesChallenge(gate)

(* a Bearer credential answered with 402 *)
C20_Witness ==
    /\ gate.pc = "done"
    /\ gate.authHeader = Some(<<"Bearer", " ", "t">>)
    /\ gate.verifyCalls = <<>>
    /\ gate.status = Some(402)

(* C21: when the challenge minter fails, that failure has been passed to   *)
(* next exactly once, nothing else has been passed to next, no status,     *)
(* header or body has been sent, and req.l402 is not set.                  *)
C21_GateMintingFailure ==
    (~IsNull(gate.challenge) /\ Val(gate.challenge).threw)
    => /\ gate.pc = "done"
       /\ gate.nextCalls = <<Val(gate.challenge).error>>
       /\ ~IsNull(gate.nextCalls[1])
       /\ NoResponse(gate)
       /\ ~Admitted(gate)
       /\ IsNull(gate.l402)
       /\ ~gate.rejected

(* the minter fails after a failed verification *)
C21_Witness ==
    /\ gate.pc = "done"
    /\ VerificationFailed(gate)
    /\ gate.nextCalls = <<Some("timeout")>>
    /\ IsNull(gate.status)

(* the price of the request: the configured value, or what the pricing     *)
(* function answered                                                       *)
RequestPrice(g) ==
    IF options.price.kind = "fixed" THEN options.price.value
    ELSE Val(g.pricing).value

(* C22: whenever the gate has answered 402, the minter was called once,    *)
(* with the price of the request as amount and the configured              *)
(* description, expiry and caveats; the body's price is that amount, the   *)
(* WWW-Authenticate header is the minter's challenge header, and the       *)
(* body's invoice and macaroon are the minter's.                           *)
C22_Gate402Content ==
    gate.status = Some(402)
    => /\ Minted(gate)
       /\ Len(gate.challengeCalls) = 1
       /\ gate.challengeCalls[1].amount = RequestPrice(gate)
       /\ gate.challengeCalls[1].description = options.description
       /\ gate.challengeCalls[1].expirySeconds = options.expirySeconds
       /\ gate.challengeCalls[1].caveats = options.caveats
       /\ Val(gate.body).price = gate.challengeCalls[1].amount
       /\ Val(gate.body).unit = "satoshis"
       /\ Val(gate.body).description = options.description
       /\ gate.header = Some(Val(gate.challenge).wwwAuthenticate)
       /\ Val(gate.body).invoice = Val(gate.challenge).invoice
       /\ Val(gate.body).macaroon = Val(gate.challenge).macaroon

(* a 402 priced by the pricing function *)
C22_Witness ==
    /\ gate.status = Some(402)
    /\ options.price.kind = "function"
    /\ Val(gate.body).price = 42
    /\ Val(gate.body).macaroon = <<"k">>

(* does the token t occur in the string s? *)
Occurs(t, s) == \E i \in 1..Len(s) : s[i] = t

(* the latest codec call parsed the result of a call of the function op *)
RoundTrip(op) == Len(trace) = 2 /\ trace[1].op = op

(* C24: for every macaroon and preimage without colons,                    *)
(* parseAuthorization(formatAuthorization(m, p)) is {macaroon: m,          *)
(* preimage: p}; and for every non-empty macaroon and invoice without      *)
(* double quotes, parseChallenge(formatChallenge(m, i)) is {macaroon: m,   *)
(* invoice: i}.                                                            *)
C24_HeaderRoundTrip ==
    /\ (/\ RoundTrip("formatAuthorization")
        /\ ~Occurs(Colon, trace[1].args[1])
        /\ ~Occurs(Colon, trace[1].args[2]))
       => trace[2].out = Some([macaroon |-> trace[1].args[1],
                               preimage |-> trace[1].args[2]])
    /\ (/\ RoundTrip("formatChallenge")
        /\ trace[1].args[1] # <<>>
        /\ trace[1].args[2] # <<>>
        /\ ~Occurs(Quote, trace[1].args[1])
        /\ ~Occurs(Quote, trace[1].args[2]))
       => trace[2].out = Some([macaroon |-> trace[1].args[1],
                               invoice |-> trace[1].args[2]])

(* the latest codec call, when it is a call of parseAuthorization *)
ParsedAuthorization == trace # <<>> /\ trace[Len(trace)].op = "parseAuthorization"

(* what follows the scheme and its space in the header h *)
Remainder(h) == SubSeq(h, 3, Len(h))

(* C25: parseAuthorization returns null exactly when the header does not   *)
(* start with "L402 " or what follows holds no colon; otherwise macaroon,  *)
(* colon, preimage make up what follows and the preimage holds no colon    *)
(* (the split is at the last colon), so "L402 a:c:a" gives macaroon "a:c"  *)
(* and preimage "a".                                                       *)
C25_ParseAuthorizationResult ==
    ParsedAuthorization
    => LET e == trace[Len(trace)]
           h == e.args[1]
           scheme == Len(h) >= 2 /\ h[1] = "L402" /\ h[2] = " "
       IN  /\ IsNull(e.out) <=> (~scheme \/ ~Occurs(Colon, Remainder(h)))
           /\ ~IsNull(e.out)
              => /\ Val(e.out).macaroon \o <<Colon>> \o Val(e.out).preimage
                        = Remainder(h)
                 /\ ~Occurs(Colon, Val(e.out).preimage)

C25_Witness ==
    /\ ParsedAuthorization
    /\ trace[Len(trace)].args[1] = L402Scheme \o <<"a", Colon, "c", Colon, "a">>
    /\ trace[Len(trace)].out = Some([macaroon |-> <<"a", Colon, "c">>,
                                     preimage |-> <<"a">>])

(* the call has called budget.record *)
Recorded(call) == call.recorded # <<>>

(* C28: the value a call adds to spent after a successful payment is the   *)
(* amount the payer reports, and the price hint of the 402 body when the   *)
(* payer reports none; the ceiling and the budget check were passed by the *)
(* price hint, whatever the amount.                                        *)
C28_AmountRecorded ==
    \A c \in Calls :
        LET call == calls[c]
            amount == Val(call.payment).amount
            added == call.recorded[1]
        IN
        /\ Len(call.recorded) <= 1
        /\ Recorded(call)
           => /\ added = IF IsNull(amount) THEN Hint(call) ELSE Val(amount)
              /\ budget.spent \in {SpentAtCheck(call) + added, added}
              /\ call.price = Hint(call)
              /\ Hint(call) <= Ceiling
              /\ ~IsNull(budget.totalSats)
                 => SpentAtCheck(call) + Hint(call) <= Val(budget.totalSats)

(* a payment with no reported amount was recorded as its hint 1, then a    *)
(* payment with hint 1 was recorded as the 4 the payer reported            *)
C28_Witness ==
    \E c \in Calls :
        /\ calls[c].recorded = <<4>>
        /\ Hint(calls[c]) = 1
        /\ budget.spent = 5
        /\ ~IsNull(budget.totalSats)

(* C29: the client calls budget.record, stores a credential and retries    *)
(* only for a payer result whose status is settled; a payer result with    *)
(* any other status never increases spent.                                 *)
C29_RecordOnlyWhenSettled ==
    \A c \in Calls :
        LET call == calls[c] IN
        (~IsNull(call.payment) /\ Val(call.payment).status # "settled")
        => /\ call.recorded = <<>>
           /\ call.stored = <<>>
           /\ Retries(call) = {}
           /\ budget.spent = SpentAtCheck(call)

(* the token of the store.set call that this step makes, if it makes one *)
Written(c) ==
    IF Len(calls'[c].stored) > Len(calls[c].stored)
    THEN Some(calls'[c].stored[Len(calls'[c].stored)])
    ELSE Null

(* the step sends the retry of call c *)
SendsRetry(c) ==
    /\ Len(calls'[c].requests) > Len(calls[c].requests)
    /\ calls'[c].requests[Len(calls'[c].requests)].kind = "retry"

(* C30: the credential written after a payment has the payer's             *)
(* authorization value verbatim, which is also the value sent on the       *)
(* retry; its macaroon is the one decoded from that authorization, or the  *)
(* challenge's macaroon when the authorization cannot be decoded; its      *)
(* preimage is the payer's preimage field, else the decoded one, else      *)
(* empty; and the entry of the store under a key stays what it is unless a *)
(* store.set writes a new credential under that key.                       *)
C30_StoredCredential ==
    [][\A c \in Calls :
        LET payment == Val(calls'[c].payment)
            authorization == Val(payment.authorization)
            decoded == parseAuthorization(authorization)
            token == Val(Written(c))
        IN
        /\ ~IsNull(Written(c))
           => /\ token.authorization = authorization
              /\ token.macaroon = IF IsNull(decoded)
                                  THEN Val(calls'[c].challenge).macaroon
                                  ELSE Val(decoded).macaroon
              /\ token.preimage = IF ~IsNull(payment.preimage)
                                  THEN Val(payment.preimage)
                                  ELSE IF ~IsNull(decoded)
                                  THEN Val(decoded).preimage
                                  ELSE <<>>
              /\ Len(calls'[c].stored) = 1
        /\ SendsRetry(c)
           => calls'[c].requests[Len(calls'[c].requests)].authorization
                = Some(calls[c].stored[1].authorization)
        /\ \A k \in DOMAIN tokens \cap DOMAIN tokens' :
              tokens'[k] # tokens[k]
              => \E w \in Calls : Written(w) = Some(tokens'[k])]_vars

(* a credential whose authorization does not decode (macaroon of the       *)
(* challenge, empty preimage) was written under the key of an earlier one  *)
(* that the server had rejected                                            *)
C30_Witness ==
    \E c \in Calls :
        LET call == calls[c] IN
        /\ call.pc = "done"
        /\ ~IsNull(call.cached)
        /\ Len(call.stored) = 1
        /\ call.stored[1].authorization = AuthNoColon
        /\ call.stored[1].macaroon = <<"m">>
        /\ call.stored[1].preimage = <<>>
        /\ Val(call.cached).authorization = AuthA
        /\ storeGet(store, tokens, call.url) = Some(call.stored[1])

(* both calls found the store empty and invoked the payer for the same URL *)
BothPaid ==
    /\ calls[1].url = calls[2].url
    /\ \A c \in Calls :
          /\ calls[c].payerCalls # <<>>
          /\ Val(calls[c].before).tokens = EmptyMap

(* C26: two overlapping calls for the same URL on a client with an empty   *)
(* in-memory store can both invoke the payer; no call is held back by the  *)
(* other's payment, and each store.set leaves the credential it writes as  *)
(* the store's entry for the URL, so the store ends with the credential of *)
(* the call that wrote last.                                               *)
C26_DoublePaymentLastWriteWins ==
    [][\A c \in Calls :
        ~IsNull(Written(c))
        => /\ storeGet(store, tokens', calls[c].url) = Written(c)
           /\ \A k \in DOMAIN tokens \cap DOMAIN tokens' :
                 tokens'[k] # tokens[k] => tokens'[k] = Val(Written(c))]_vars

(* both calls paid for the same URL; call 1 wrote its credential at time   *)
(* 0, call 2 wrote a different one later, and the store holds call 2's     *)
C26_Witness ==
    /\ BothPaid
    /\ \A c \in Calls : calls[c].pc = "done" /\ Len(calls[c].stored) = 1
    /\ calls[1].stored[1].paidAt < calls[2].stored[1].paidAt
    /\ calls[1].stored[1].authorization # calls[2].stored[1].authorization
    /\ storeGet(store, tokens, calls[1].url) = Some(calls[2].stored[1])

(* the step is the budget.record of call c, made on the budget as the      *)
(* call's own budget.check left it                                         *)
RecordsUndisturbed(c) ==
    /\ Len(calls'[c].recorded) > Len(calls[c].recorded)
    /\ budget = Val(calls[c].checked)

(* C27: budget.check and budget.record are separate steps around the       *)
(* payer call, so two overlapping calls can both pass the check on the     *)
(* same spent value and bring spent above the total although each charged  *)
(* amount is its price hint; when no other call has changed the budget     *)
(* between a call's check and its record and the amount charged is the     *)
(* price hint, the record leaves spent within the total.                   *)
C27_BudgetRace ==
    [][\A c \in Calls :
        (/\ RecordsUndisturbed(c)
         /\ ~IsNull(budget.totalSats)
         /\ calls'[c].recorded[1] = Hint(calls[c]))
        => budget'.spent <= Val(budget.totalSats)]_vars

(* both calls passed budget.check on the same spent value, each was        *)
(* charged its price hint, and spent is above the total                    *)
C27_Witness ==
    /\ ~IsNull(budget.totalSats)
    /\ budget.spent > Val(budget.totalSats)
    /\ calls[1].checked = calls[2].checked
    /\ \A c \in Calls :
          /\ ~IsNull(calls[c].checked)
          /\ Len(calls[c].recorded) = 1
          /\ calls[c].recorded[1] = Hint(calls[c])

(* the latest call of the client and the one before it *)
Latest == ((started + 1) % 2) + 1
Previous == (started % 2) + 1

(* the payer settled the call's payment with the credential the verifier   *)
(* accepts                                                                 *)
PaidFor(call) ==
    /\ ~IsNull(call.payment)
    /\ Val(call.payment).status = "settled"
    /\ Val(call.payment).authorization = Some(PaidCredential)

(* C23: client and gate composed, the verifier accepting the credential    *)
(* the payer returns.  A call with no cached credential sends its request  *)
(* without credential and receives the gate's 402 with the minted          *)
(* challenge and the resolved price; when the price is within the ceiling  *)
(* it invokes the payer once, with that challenge; when the payer settles  *)
(* it retries with the credential, is admitted, and returns the route's    *)
(* 200, with exactly one payer invocation.  On a client that keeps         *)
(* credentials, the next sequential call to the same URL finds that        *)
(* credential, presents it, is admitted and returns 200 after that single  *)
(* request, with no payer invocation.                                      *)
C23_EndToEnd ==
    /\ \A c \in Calls :
        LET call == calls[c] IN
        /\ (IsNull(call.cached) /\ Len(call.responses) >= 1)
           => /\ call.requests[1] = [kind |-> "fetch", authorization |-> Null]
              /\ call.responses[1].status = 402
              /\ \E ch \in EndToEndChallengePool :
                    call.responses[1].wwwAuthenticate = Some(ch.wwwAuthenticate)
              /\ options.price.kind = "fixed" => Hint(call) = options.price.value
              /\ (c = Latest /\ gate.request = Some(<<started, 1>>))
                 => /\ call.responses[1].wwwAuthenticate
                          = Some(Val(gate.challenge).wwwAuthenticate)
                    /\ Hint(call) = Val(gate.price)
                    /\ gate.challengeCalls[1].amount = Hint(call)
        /\ (IsNull(call.cached) /\ Priced(call) /\ Hint(call) <= Ceiling)
           => call.payerCalls = <<Val(call.responses[1].wwwAuthenticate)>>
        /\ (IsNull(call.cached) /\ PaidFor(call) /\ Len(call.responses) = 2)
           => /\ call.requests[2] = [kind |-> "retry",
                                     authorization |-> Some(PaidCredential)]
              /\ call.responses[2].status = 200
              /\ call.pc = "done"
              /\ call.result = Some(call.responses[2])
              /\ Len(call.payerCalls) = 1
        /\ (~IsNull(call.cached) /\ Val(call.cached).authorization = PaidCredential
              /\ Len(call.responses) >= 1)
           => /\ call.requests = <<[kind |-> "cachedFetch",
                                    authorization |-> Some(PaidCredential)]>>
              /\ call.responses[1].status = 200
              /\ call.pc = "done"
              /\ call.result = Some(call.responses[1])
              /\ call.payerCalls = <<>>
    /\ (/\ started >= 2
        /\ store = "memory"
        /\ calls[Previous].stored # <<>>
        /\ calls[Latest].url = calls[Previous].url)
       => calls[Latest].cached = Some(calls[Previous].stored[1])

(* the first call paid once and returned 200; the second call to the same  *)
(* URL returned 200 on the cached credential; the payer was invoked once   *)
C23_Witness ==
    /\ started = 2
    /\ calls[1].url = calls[2].url
    /\ \A c \in Calls : calls[c].pc = "done" /\ Val(calls[c].result).status = 200
    /\ IsNull(calls[1].cached)
    /\ Len(calls[1].requests) = 2
    /\ Len(calls[1].payerCalls) = 1
    /\ calls[2].cached = Some(calls[1].stored[1])
    /\ Len(calls[2].requests) = 1
    /\ calls[2].payerCalls = <<>>
    /\ gate.nextCalls = <<Null>>
    /\ gate.verifyCalls = <<PaidCredential>>

(* the step is call c's continuation after store.get resolved with a       *)
(* credential                                                              *)
ReadsCached(c) ==
    /\ calls[c].pc = "get"
    /\ calls'[c].pc # "get"
    /\ ~IsNull(calls[c].cached)

(* the step sends a request of call c *)
Sends(c) == Len(calls'[c].requests) > Len(calls[c].requests)

(* the request call c sends in this step *)
Sent(c) == calls'[c].requests[Len(calls'[c].requests)]

(* the call found a credential and never presented it *)
SkippedCached(call) ==
    /\ ~IsNull(call.cached)
    /\ call.requests # <<>>
    /\ call.requests[1].kind = "fetch"

(* C31: when the credential read from the store has an expiry strictly     *)
(* earlier than the current time, the call deletes the store's entry for   *)
(* the URL without sending the credential, and its first request carries   *)
(* no credential; when that request is answered with a status other than   *)
(* 402 the call returns it, the entry is still absent and the payer has    *)
(* not been invoked.                                                       *)
C31_ExpiredNeverSent ==
    [][\A c \in Calls :
        LET expiry == Val(calls[c].cached).expiresAt IN
        /\ (ReadsCached(c) /\ ~IsNull(expiry) /\ Val(expiry) < now)
           => /\ ~Sends(c)
              /\ calls'[c].pc = "delete"
              /\ calls'[c].deleted = 1
              /\ IsNull(storeGet(store, tokens', calls[c].url))
        /\ (SkippedCached(calls'[c]) /\ Sends(c) /\ Len(calls'[c].requests) = 1)
           => Sent(c) = [kind |-> "fetch", authorization |-> Null]
        /\ (/\ SkippedCached(calls'[c])
            /\ Len(calls'[c].responses) = 1
            /\ calls'[c].responses[1].status # 402)
           => /\ calls'[c].pc = "done"
              /\ calls'[c].result = Some(calls'[c].responses[1])
              /\ calls'[c].payerCalls = <<>>
              /\ IsNull(storeGet(store, tokens', calls'[c].url))]_vars

(* a credential that expired at time 1 was read an hour later, deleted,    *)
(* and the request without credential was answered 200                     *)
C31_Witness ==
    \E c \in Calls :
        LET call == calls[c] IN
        /\ call.pc = "done"
        /\ SkippedCached(call)
        /\ Val(call.cached).expiresAt = Some(1)
        /\ now = PERIOD_MS("hour")
        /\ call.deleted = 1
        /\ Len(call.requests) = 1
        /\ Val(call.result).status = 200
        /\ IsNull(storeGet(store, tokens, call.url))

(* C32: a cached credential is attached whenever it has no expiry or the   *)
(* current time is not later than its expiresAt; a credential whose        *)
(* expiresAt equals the current time is attached and not deleted.          *)
C32_ExpiryBoundary ==
    [][\A c \in Calls :
        LET expiry == Val(calls[c].cached).expiresAt IN
        (ReadsCached(c) /\ (IsNull(expiry) \/ now <= Val(expiry)))
        => /\ Sends(c)
           /\ Sent(c) = [kind |-> "cachedFetch",
                         authorization |-> Some(Val(calls[c].cached).authorization)]
           /\ calls'[c].deleted = 0
           /\ tokens' = tokens]_vars

(* the key k holds no query string, no fragment and no trailing slash *)
Stripped(k) ==
    /\ \A i \in 1..Len(k) : k[i] \notin {"?", "#"}
    /\ k[Len(k)] # "/"

(* C33: every get, set and delete that l402Fetch issues to the configured  *)
(* store, a store supplied by the caller included, uses the URL with query *)
(* string, fragment and trailing slashes stripped: no key of the store     *)
(* holds any of them, and a call whose URL differs only in the query       *)
(* string from the URL of the call before it reads the credential that     *)
(* call stored.                                                            *)
C33_OrchestratorKeys ==
    /\ \A k \in DOMAIN tokens : Stripped(k)
    /\ (/\ started >= 2
        /\ store # "none"
        /\ calls[Previous].stored # <<>>
        /\ SameResource(calls[Latest].url, calls[Previous].url))
       => calls[Latest].cached = Some(calls[Previous].stored[1])

(* the kinds of the requests the call has sent, in the order sent *)
Kinds(call) == [i \in 1..Len(call.requests) |-> call.requests[i].kind]

(* the call has ended, with a response or with an error *)
Ended(call) ==
    \/ call.pc = "done" /\ ~IsNull(call.result) /\ IsNull(call.error)
    \/ call.pc = "failed" /\ ~IsNull(call.error) /\ IsNull(call.result)

(* C34: when the store, the server and the payer each answer, every fetch  *)
(* call ends with a response or an error; at every moment it has sent at   *)
(* most three requests, each kind at most once and in the order cached     *)
(* attempt, unauthenticated attempt, post-payment retry, and has invoked   *)
(* the payer at most once.                                                 *)
C34_BoundedWork ==
    /\ [](\A c \in Calls :
            /\ Kinds(calls[c]) \in {<<>>,
                                    <<"cachedFetch">>,
                                    <<"fetch">>,
                                    <<"cachedFetch", "fetch">>,
                                    <<"fetch", "retry">>,
                                    <<"cachedFetch", "fetch", "retry">>}
            /\ Len(calls[c].payerCalls) <= 1
            /\ calls[c].pc \in {"done", "failed"} => Ended(calls[c]))
    /\ \A c \in Calls : InProgress(c) ~> Ended(calls[c])

(* a call sent all three requests, paid once, and ended with an error when *)
(* the retry was answered 402                                              *)
C34_Witness ==
    \E c \in Calls :
        /\ Kinds(calls[c]) = <<"cachedFetch", "fetch", "retry">>
        /\ Len(calls[c].payerCalls) = 1
        /\ Ended(calls[c])
        /\ calls[c].pc = "failed"

(* what the caller of the gate observes *)
Observable(g) == [status |-> g.status, header |-> g.header, body |-> g.body]

(* the 402 for a challenge ch minted at the given price, as a request      *)
(* without credential receives it                                          *)
FreshChallenge(price, ch) ==
    [status |-> Some(402),
     header |-> Some(ch.wwwAuthenticate),
     body |-> Some([type |-> "payment_required",
                    title |-> "Payment Required",
                    detail |-> "Pay the included Lightning invoice to access this resource.",
                    invoice |-> ch.invoice,
                    macaroon |-> ch.macaroon,
                    price |-> price,
                    unit |-> "satoshis",
                    description |-> options.description])]

(* C35: unless the verifier reported valid, what the gate sends is fixed   *)
(* by the price configuration, the price of the request and the minter's   *)
(* result alone: whether no credential was presented, a credential of      *)
(* another scheme was presented, the verifier reported invalid (with any   *)
(* error text) or the verifier threw, the gate sends nothing until the     *)
(* minter has answered and then sends the same 402 status, challenge       *)
(* header and body; nothing of the verifier's result is in it.             *)
C35_GateHidesVerificationFailure ==
    ~VerifiedValid(gate)
    => /\ NoResponse(gate)
          \/ /\ ~IsNull(gate.challenge)
             /\ Observable(gate)
                    = FreshChallenge(RequestPrice(gate), Val(gate.challenge))
       /\ Minted(gate) => ~NoResponse(gate)
       /\ ~Admitted(gate)
       /\ IsNull(gate.l402)

(* the verifier reported "bad preimage" and the gate answered with the 402 *)
(* of a fresh challenge                                                    *)
C35_Witness ==
    /\ gate.authHeader = Some(AuthA)
    /\ ~IsNull(gate.verified)
    /\ Val(gate.verified).error = Some("bad preimage")
    /\ gate.status = Some(402)
    /\ Val(gate.body).price = 42

(* C36: a fetch call never resolves with a payment-required response: a   *)
(* call that has ended has either resolved with a response whose status is *)
(* not 402 or failed with an error, and a 402 answer to its last request   *)
(* has made it fail.                                                       *)
C36_Never402Returned ==
    \A c \in Calls :
        LET call == calls[c]
            n == Len(call.responses)
        IN
        /\ ~IsNull(call.result)
           => /\ call.pc = "done"
              /\ Val(call.result).status # 402
              /\ IsNull(call.error)
        /\ call.pc = "done" => ~IsNull(call.result)
        /\ call.pc = "failed" => IsNull(call.result) /\ ~IsNull(call.error)
        /\ (n >= 1 /\ n = Len(call.requests) /\ call.responses[n].status = 402
              /\ call.requests[n].kind = "retry")
           => call.pc = "failed"

(* every request of the call was answered 402, the retry included, and the *)
(* call failed                                                             *)
C36_Witness ==
    \E c \in Calls :
        /\ calls[c].pc = "failed"
        /\ Len(calls[c].responses) = 3
        /\ \A i \in 1..3 : calls[c].responses[i].status = 402
        /\ IsNull(calls[c].result)

(* the call has dealt with the payer's result *)
PayerAnswered(call) ==
    ~IsNull(call.payment) /\ call.pc \in {"retry", "done", "failed"}

(* C37: on a sequentially used client, spent is the sum of the charged     *)
(* amounts of the payments the payer settled since the last period reset:  *)
(* once a call has dealt with the payer's result, a settled payment has    *)
(* been recorded with its charged amount, also when the payer returned no  *)
(* authorization value, and any other result has left the budget as the    *)
(* call's check left it.                                                   *)
C37_SpendAccountingComplete ==
    \A c \in Calls :
        LET call == calls[c]
            payment == Val(call.payment)
            charged == IF IsNull(payment.amount) THEN Hint(call)
                       ELSE Val(payment.amount)
        IN
        PayerAnswered(call)
        => IF payment.status = "settled"
           THEN /\ call.recorded = <<charged>>
                /\ budget.spent \in {Val(call.checked).spent + charged, charged}
           ELSE /\ call.recorded = <<>>
                /\ budget = Val(call.checked)

(* the step is a store.delete of call c *)
Deletes(c) == calls'[c].deleted > calls[c].deleted

(* C38: when a call deletes the store's entry because the credential it    *)
(* presented was answered 402 (or was expired), the entry removed is the   *)
(* credential that call read; a credential another call has stored in the  *)
(* meantime is not removed.                                                *)
C38_DeletesOnlyRejected ==
    [][\A c \in Calls :
        Deletes(c)
        => \A k \in DOMAIN tokens :
              k \notin DOMAIN tokens' => Some(tokens[k]) = calls[c].cached]_vars

(* the call's post-payment retry was answered 402 or failed at transport   *)
(* level                                                                   *)
RetryFailed(call) == call.pc = "failed" /\ Retries(call) # {}

(* C39: the credential is stored and the payment recorded before the       *)
(* post-payment retry is sent; when the retry is answered 402 or fails at  *)
(* transport level, the credential is still the store's entry for the URL  *)
(* and spent still includes the payment; the next sequential call for the  *)
(* same URL reads that credential, presents it on its first request, and   *)
(* invokes the payer only after that request was answered 402.             *)
C39_NoRollback ==
    /\ \A c \in Calls :
          Retries(calls[c]) # {}
          => Len(calls[c].stored) = 1 /\ Len(calls[c].recorded) = 1
    /\ (started >= 1 /\ RetryFailed(calls[Latest]))
       => /\ store # "none"
             => storeGet(store, tokens, calls[Latest].url)
                   = Some(calls[Latest].stored[1])
          /\ budget.spent = Val(calls[Latest].before).budget.spent
                               + calls[Latest].recorded[1]
    /\ (/\ started >= 2
        /\ RetryFailed(calls[Previous])
        /\ store # "none"
        /\ calls[Latest].url = calls[Previous].url
        /\ calls[Latest].pc # "idle")
       => LET call == calls[Latest]
              bought == calls[Previous].stored[1]
          IN  /\ call.cached = Some(bought)
              /\ Val(call.before).budget.spent
                    = Val(calls[Previous].before).budget.spent
                         + calls[Previous].recorded[1]
              /\ call.requests # <<>>
                 => call.requests[1] = [kind |-> "cachedFetch",
                                        authorization |-> Some(bought.authorization)]
              /\ call.payerCalls # <<>>
                 => call.responses[1].status = 402

(* the retry of a paid call failed at transport level; the next call for   *)
(* the URL presented the purchased credential and was answered 200         *)
C39_Witness ==
    /\ started = 2
    /\ RetryFailed(calls[Previous])
    /\ Val(calls[Previous].error).name = "TypeError"
    /\ budget.spent = 2
    /\ calls[Latest].url = calls[Previous].url
    /\ calls[Latest].pc = "done"
    /\ calls[Latest].cached = Some(calls[Previous].stored[1])
    /\ Len(calls[Latest].requests) = 1
    /\ calls[Latest].payerCalls = <<>>
    /\ Val(calls[Latest].result).status = 200

(* the gate passed a failure to the framework's error path: next(err) *)
FailurePassedOn(g) == \E i \in 1..Len(g.nextCalls) : ~IsNull(g.nextCalls[i])

(* the request went on to the protected handler with payment data attached *)
Proceeds(g) == Admitted(g) /\ ~IsNull(g.l402)

(* how many of the truth values in the sequence s are TRUE *)
RECURSIVE CountTrue(_)
CountTrue(s) ==
    IF s = <<>> THEN 0
    ELSE (IF s[1] THEN 1 ELSE 0) + CountTrue(SubSeq(s, 2, Len(s)))

(* C40: whatever the verifier, the pricing function and the challenge      *)
(* minter do, a pricing function that fails included, the gate finishes    *)
(* with exactly one of: the request proceeds to the protected handler with *)
(* payment data attached, a 402 response is sent, the failure is passed to *)
(* the framework's error path; and next is called at most once.            *)
C40_GateExactlyOneOutcome ==
    /\ Len(gate.nextCalls) <= 1
    /\ CountTrue(<<Proceeds(gate), gate.status = Some(402), FailurePassedOn(gate)>>)
          <= 1
    /\ gate.pc = "done"
       => CountTrue(<<Proceeds(gate), gate.status = Some(402),
                      FailurePassedOn(gate)>>) = 1

====
